---- MODULE Spec2Model ----
(***************************************************************************)
(* logalign: the view command's parallel pipeline (producer, worker pool,  *)
(* order-preserving completion queue, consumer), the ViewConfig validation *)
(* and the prefix strip of Viewer.ProcessLine, and the construction of the *)
(* Viewer from a corpus.                                                   *)
(*                                                                         *)
(* Strings are sequences of one-character strings, so that byte offsets,   *)
(* slices and strconv.Atoi are computed as the code computes them.         *)
(* MinMatchedRatio is kept in tenths (3 stands for 0.3).                   *)
(***************************************************************************)
EXTENDS Integers, Sequences, FiniteSets, TLC

(***************************************************************************)
(* Bounds of the model.  The program runs 32 workers and a completion      *)
(* channel of capacity 256; the model scales both down so that a full      *)
(* channel and contended mutexes occur with a handful of lines.            *)
(***************************************************************************)
NumWorkers == 2
ChanCap == 1
MaxLines == 3
MaxStartCharPosLen == 3
MaxLineLen == 4

Workers == 1..NumWorkers
Producer == 0
NoOwner == -1

Min(a, b) == IF a < b THEN a ELSE b

(***************************************************************************)
(* Byte strings.                                                           *)
(***************************************************************************)
RECURSIVE SeqsUpTo(_, _)
SeqsUpTo(S, n) ==
  IF n = 0 THEN {<<>>}
  ELSE LET shorter == SeqsUpTo(S, n - 1)
       IN shorter \cup {Append(s, c) : s \in {t \in shorter : Len(t) = n - 1}, c \in S}

\* s[from:] of Go, defined for 0 <= from <= len(s)
SliceFrom(s, from) == SubSeq(s, from + 1, Len(s))
\* s[:to] of Go, defined for 0 <= to <= len(s)
SliceTo(s, to) == SubSeq(s, 1, to)

\* strings.IndexByte: 0-based index of the first c in s, or -1
IndexByte(s, c) ==
  IF \E i \in 1..Len(s) : s[i] = c
  THEN (CHOOSE i \in 1..Len(s) : s[i] = c /\ \A j \in 1..(i - 1) : s[j] # c) - 1
  ELSE -1

Digits == {"0", "1", "2", "3", "4", "5", "6", "7", "8", "9"}
DigitVal(c) ==
  CASE c = "0" -> 0 [] c = "1" -> 1 [] c = "2" -> 2 [] c = "3" -> 3 [] c = "4" -> 4
    [] c = "5" -> 5 [] c = "6" -> 6 [] c = "7" -> 7 [] c = "8" -> 8 [] c = "9" -> 9

RECURSIVE DecimalValue(_)
DecimalValue(s) ==
  IF Len(s) = 0 THEN 0
  ELSE 10 * DecimalValue(SubSeq(s, 1, Len(s) - 1)) + DigitVal(s[Len(s)])

\* strconv.Atoi on a short string: optional sign, then one or more digits
Atoi(s) ==
  IF Len(s) = 0 THEN [err |-> TRUE, val |-> 0]
  ELSE LET signed == s[1] \in {"-", "+"}
           body == IF signed THEN SliceFrom(s, 1) ELSE s
       IN IF Len(body) < 1 \/ \E i \in 1..Len(body) : body[i] \notin Digits
          THEN [err |-> TRUE, val |-> 0]
          ELSE [err |-> FALSE,
                val |-> IF s[1] = "-" THEN 0 - DecimalValue(body) ELSE DecimalValue(body)]

(***************************************************************************)
(* ViewConfig (internal/view.go).                                          *)
(***************************************************************************)
DefaultConfig ==
  [MinMatchChars |-> 4, MinMatchWordChars |-> 3, MinMatchedRatio |-> 3,
   StartPos |-> 1, StartCharPos |-> <<>>, SourceColumnWidth |-> 4,
   SkipPrintArgumentExpr |-> FALSE, ProjectFilter |-> <<>>]

\* ViewConfig.Validate: "ok" for nil, otherwise the error returned
ValidateNoBothCheck(vc) ==
  IF vc.MinMatchChars < 0 THEN "min_match_chars must be non-negative"
  ELSE IF vc.StartPos < 0 THEN "start_pos must be a non-negative, 1-based integer"
  ELSE IF vc.SourceColumnWidth < 0 THEN "source_column_width must be non-negative"
  ELSE IF Len(vc.StartCharPos) > 0
       THEN IF Len(vc.StartCharPos) < 2
            THEN "start_char_pos must be at least a two-character string"
            ELSE LET r == Atoi(SliceFrom(vc.StartCharPos, 1))
                 IN IF r.err THEN "start_char_pos: invalid posIdx"
                    ELSE IF r.val < 1 THEN "start_char_pos: posIdx must be a positive integer"
                    ELSE "ok"
       ELSE "ok"

Validate(vc) ==
  IF vc.MinMatchChars < 0 THEN "min_match_chars must be non-negative"
  ELSE IF vc.StartPos < 0 THEN "start_pos must be a non-negative, 1-based integer"
  ELSE IF vc.SourceColumnWidth < 0 THEN "source_column_width must be non-negative"
  ELSE IF Len(vc.StartCharPos) > 0 /\ vc.StartPos > 1
       THEN "cannot use both start_pos and start_char_pos together"
  ELSE IF Len(vc.StartCharPos) > 0
       THEN IF Len(vc.StartCharPos) < 2
            THEN "start_char_pos must be at least a two-character string"
            ELSE LET r == Atoi(SliceFrom(vc.StartCharPos, 1))
                 IN IF r.err THEN "start_char_pos: invalid posIdx"
                    ELSE IF r.val < 1 THEN "start_char_pos: posIdx must be a positive integer"
                    ELSE "ok"
       ELSE "ok"

\* ViewConfig.MustGetStartCharPos: the byte and the index; log.Panic on a
\* malformed index
MustGetStartCharPosWholeString(vc) ==
  LET r == Atoi(vc.StartCharPos)
  IN [panic |-> r.err, char |-> vc.StartCharPos[1], idx |-> r.val]

MustGetStartCharPos(vc) ==
  LET r == Atoi(SliceFrom(vc.StartCharPos, 1))
  IN [panic |-> r.err, char |-> vc.StartCharPos[1], idx |-> r.val]

(***************************************************************************)
(* Viewer.ProcessLine, prefix strip (internal/view.go:255-271).            *)
(***************************************************************************)
\* the loop `for cnt > 0` that advances startPos past occurrences of char
RECURSIVE StartCharLoopNoSkip(_, _, _, _)
StartCharLoopNoSkip(l, char, cnt, pos) ==
  IF cnt <= 0 THEN pos
  ELSE LET newPos == IndexByte(SliceFrom(l, pos), char)
       IN IF newPos = -1 THEN Len(l) - 1
          ELSE StartCharLoopNoSkip(l, char, cnt - 1, pos + newPos)

RECURSIVE StartCharLoop(_, _, _, _)
StartCharLoop(l, char, cnt, pos) ==
  IF cnt <= 0 THEN pos
  ELSE LET newPos == IndexByte(SliceFrom(l, pos), char)
       IN IF newPos = -1 THEN Len(l) - 1
          ELSE StartCharLoop(l, char, cnt - 1, pos + newPos + 1)

\* the value of startPos at line 270, and whether the function panicked
\* before (MustGetStartCharPos) or at the slice expressions of lines 270-271
StripPrefix(vc, l) ==
  LET scp == MustGetStartCharPos(vc)
      mode == IF vc.StartPos > 1 THEN "start_pos"
              ELSE IF Len(vc.StartCharPos) > 0 THEN "start_char_pos"
              ELSE "none"
      sp == IF mode = "start_pos" THEN vc.StartPos - 1
            ELSE IF mode = "start_char_pos" /\ ~scp.panic
                 THEN StartCharLoop(l, scp.char, scp.idx, 0)
            ELSE 0
      cut == Min(sp, Len(l))
      panics == (mode = "start_char_pos" /\ scp.panic) \/ cut < 0
  IN [panic |-> panics,
      startPos |-> sp,
      prefix |-> IF panics THEN <<>> ELSE SliceTo(l, cut),
      lineToMatch |-> IF panics THEN <<>> ELSE SliceFrom(l, cut)]

(***************************************************************************)
(* Viewer.buildRefColumn for a line without a reference (file "" and line  *)
(* 0, internal/view.go:218-232), and ProcessLine for a line that no call   *)
(* site of the corpus matches: refColumn + prefix + lineToMatch.           *)
(***************************************************************************)
refColumnSeparator == <<" ", "|", " ">>

Spaces(n) == [i \in 1..n |-> " "]

buildRefColumnNoRef(vc) ==
  IF vc.SourceColumnWidth = 0 THEN <<>>
  ELSE Spaces(vc.SourceColumnWidth - Len(refColumnSeparator)) \o refColumnSeparator

ProcessLineNoMatch(vc, l) ==
  LET s == StripPrefix(vc, l)
  IN [panic |-> s.panic,
      err |-> FALSE,
      out |-> buildRefColumnNoRef(vc) \o s.prefix \o s.lineToMatch]

(***************************************************************************)
(* State.                                                                  *)
(***************************************************************************)
VARIABLES
  cfg,             \* the ViewConfig of the run
  \* --- viewCmd.Run: the pipeline ---
  input,           \* the lines the scanner will deliver
  currLine,        \* atomic counter of produced lines
  pcP,             \* producer goroutine
  prodLine,        \* oldCurrLine of the producer
  iqQueue,         \* SafeQueue.queue
  iqMu,            \* SafeQueue.mu: owner or NoOwner
  iqWaiters,       \* goroutines parked in SafeQueue.cond.Wait
  pcW,             \* worker goroutines
  wItem,           \* line of a worker (InputLine)
  wProcessed,      \* text a worker is about to publish
  wSend,           \* item a worker is sending on completionChan
  popCount,        \* history: how many times each sequence number was popped
  cqResults,       \* OrderPreservingCompletionQueue.results
  cqMu,            \* OrderPreservingCompletionQueue.mu: owner or NoOwner
  nextID,          \* OrderPreservingCompletionQueue.nextID
  completionChan,  \* buffered channel; entries carry their sequence number
  pcC,             \* consumer loop (the goroutine of Run)
  terminated,
  outputLine,
  output,          \* the lines printed so far
  crashed,         \* an unrecovered panic ended the process
  \* --- Validate and ProcessLine on one Viewer ---
  vpc, line, startPos, prefix, lineToMatch,
  hsMatches,         \* ProcessLine: the map `matches` the match handler filled
  bestMatched,       \* ProcessLine: bestMatched and its three counts
  isMatch,           \* ProcessLine: the line passed the threshold test
  processedMatched,  \* ProcessLine: the body as it is printed
  refColumn,         \* ProcessLine: result of buildRefColumn
  plOutput,          \* ProcessLine: the returned string
  prevOutput,        \* history: the result of the run before, if it was on the same line
  roundTrip,         \* a formatted value and what its confirm pattern made of it
  reports,           \* history: the reports the match handler has received in this scan
  \* --- buildOrLoadCachedHSPatternsDB in several processes on one cache directory ---
  cacheFile,         \* the file <hash>.hsdb: whether it exists, and its chunks
  cacheProc,         \* per engine construction: position and write offset
  \* --- OrderPreservingCompletionQueue under arbitrary callers ---
  pushCalls,         \* history: index -> number of Push calls made with it
  \* --- NewViewer ---
  corpus,                            \* project name -> CorpusFile
  loopVarPerIteration,               \* the toolchain gives `for _, def := range` one def per iteration
  nvPc,                              \* position in NewViewer, or its outcome
  nvTodo,                            \* projects `range corpus` has not produced yet
  nvProject, nvCall,                 \* project and index i of the loops
  compiledRegex,                     \* keys of CompiledRegex
  hsPatterns,                        \* prefilter patterns, in enrollment order
  compiledAllPatternIDToLogCallMap,
  definitionIDToDefinitionMap

pipeVars == <<input, currLine, pcP, prodLine, iqQueue, iqMu, iqWaiters, pcW, wItem,
              wProcessed, wSend, popCount, cqResults, cqMu, nextID, completionChan,
              pcC, terminated, outputLine, output, crashed>>
auxVars == <<cacheFile, cacheProc, pushCalls>>
matchVars == <<hsMatches, bestMatched, isMatch, processedMatched, refColumn, plOutput,
               prevOutput, roundTrip, reports, auxVars>>
lineVars == <<vpc, line, startPos, prefix, lineToMatch, matchVars>>
nvVars == <<corpus, loopVarPerIteration, nvPc, nvTodo, nvProject, nvCall, compiledRegex,
            hsPatterns, compiledAllPatternIDToLogCallMap, definitionIDToDefinitionMap>>
vars == <<cfg, pipeVars, lineVars, nvVars>>

NoItem == [Line |-> -1, Content |-> <<>>]
NoSend == [seq |-> -1, val |-> <<>>]

PipelineLines == {<<>>, <<"a">>}
PipelineInputs == SeqsUpTo(PipelineLines, MaxLines)
PipelineConfigs ==
  {DefaultConfig, [DefaultConfig EXCEPT !.StartCharPos = <<"a", "1">>, !.SourceColumnWidth = 0]}

NoLink == [template |-> "", file |-> <<>>, line |-> 0]
NoRefColumn == [panic |-> FALSE, text |-> <<>>, link |-> NoLink]
NoRun == [valid |-> FALSE, panic |-> FALSE, out |-> <<>>]
NoSpan == [from |-> 0, to |-> 0]
NoRoundTrip == [valid |-> FALSE, format |-> <<>>, text |-> <<>>, accepted |-> FALSE,
                span |-> NoSpan]

NoFile == [exists |-> FALSE, data |-> <<>>]
CacheIdle ==
  /\ cacheFile = NoFile
  /\ cacheProc = <<>>
  /\ pushCalls = <<>>

MatchIdle ==
  /\ hsMatches = <<>>
  /\ bestMatched = [key |-> <<0, 0>>, word |-> 0, lit |-> 0, total |-> 0]
  /\ isMatch = FALSE
  /\ processedMatched = <<>>
  /\ refColumn = NoRefColumn
  /\ plOutput = <<>>
  /\ prevOutput = NoRun
  /\ roundTrip = NoRoundTrip
  /\ reports = <<>>

LineIdle ==
  /\ vpc = "idle"
  /\ line = <<>>
  /\ startPos = 0
  /\ prefix = <<>>
  /\ lineToMatch = <<>>
  /\ MatchIdle
  /\ CacheIdle

PipelineStart(in) ==
  /\ input = in
  /\ currLine = 0
  /\ pcP = "scan"
  /\ prodLine = -1
  /\ iqQueue = <<>>
  /\ iqMu = NoOwner
  /\ iqWaiters = {}
  /\ pcW = [w \in Workers |-> "pop_lock"]
  /\ wItem = [w \in Workers |-> NoItem]
  /\ wProcessed = [w \in Workers |-> <<>>]
  /\ wSend = [w \in Workers |-> NoSend]
  /\ popCount = [i \in 0..(Len(in) - 1) |-> 0]
  /\ cqResults = <<>>
  /\ cqMu = NoOwner
  /\ nextID = 0
  /\ completionChan = <<>>
  /\ pcC = "select"
  /\ terminated = FALSE
  /\ outputLine = 0
  /\ output = <<>>
  /\ crashed = FALSE

\* no corpus: NewViewer is not part of the run under study
ViewerIdle ==
  /\ corpus = <<>>
  /\ loopVarPerIteration = TRUE
  /\ nvPc = "idle"
  /\ nvTodo = {}
  /\ nvProject = ""
  /\ nvCall = 0
  /\ compiledRegex = {}
  /\ hsPatterns = <<>>
  /\ compiledAllPatternIDToLogCallMap = <<>>
  /\ definitionIDToDefinitionMap = <<>>

\* the state after NewViewer succeeded and Run created the queues
Init ==
  /\ cfg \in PipelineConfigs
  /\ \E in \in PipelineInputs : PipelineStart(in)
  /\ LineIdle
  /\ ViewerIdle

(***************************************************************************)
(* Producer goroutine (cmd view, README.md:187-207).                       *)
(***************************************************************************)
\* scanner.Scan(), currLine.Add(1) - 1
ProducerScan ==
  /\ ~crashed /\ pcP = "scan"
  /\ IF currLine < Len(input)
     THEN /\ prodLine' = currLine
          /\ currLine' = currLine + 1
          /\ pcP' = "push_lock"
     ELSE /\ pcP' = "term"
          /\ UNCHANGED <<prodLine, currLine>>
  /\ UNCHANGED <<cfg, input, iqQueue, iqMu, iqWaiters, pcW, wItem, wProcessed, wSend,
                 popCount, cqResults, cqMu, nextID, completionChan, pcC, terminated,
                 outputLine, output, crashed, lineVars, nvVars>>

\* SafeQueue.Push: q.mu.Lock()
ProducerPushLock ==
  /\ ~crashed /\ pcP = "push_lock" /\ iqMu = NoOwner
  /\ iqMu' = Producer
  /\ pcP' = "push_append"
  /\ UNCHANGED <<cfg, input, currLine, prodLine, iqQueue, iqWaiters, pcW, wItem,
                 wProcessed, wSend, popCount, cqResults, cqMu, nextID, completionChan,
                 pcC, terminated, outputLine, output, crashed, lineVars, nvVars>>

\* SafeQueue.Push: append, q.cond.Signal() (wakes one parked goroutine, if
\* any), deferred Unlock
SafeQueuePushNoSignal ==
  /\ iqQueue' = Append(iqQueue, [Line |-> prodLine, Content |-> input[prodLine + 1]])
  /\ UNCHANGED <<iqWaiters, pcW>>
  /\ iqMu' = NoOwner

SafeQueuePush ==
  /\ iqQueue' = Append(iqQueue, [Line |-> prodLine, Content |-> input[prodLine + 1]])
  /\ IF iqWaiters = {}
     THEN UNCHANGED <<iqWaiters, pcW>>
     ELSE \E w \in iqWaiters :
            /\ iqWaiters' = iqWaiters \ {w}
            /\ pcW' = [pcW EXCEPT ![w] = "pop_relock"]
  /\ iqMu' = NoOwner

ProducerPushAppend ==
  /\ ~crashed /\ pcP = "push_append" /\ iqMu = Producer
  /\ SafeQueuePush
  /\ pcP' = "scan"
  /\ UNCHANGED <<cfg, input, currLine, prodLine, wItem, wProcessed, wSend, popCount,
                 cqResults, cqMu, nextID, completionChan, pcC, terminated, outputLine,
                 output, crashed, lineVars, nvVars>>

(***************************************************************************)
(* Worker goroutines (cmd view, README.md:173-185).                        *)
(***************************************************************************)
\* SafeQueue.WaitToPop: q.mu.Lock(), and the re-acquisition of the mutex by
\* a goroutine that cond.Signal woke
WorkerPopLock(w) ==
  /\ ~crashed /\ pcW[w] \in {"pop_lock", "pop_relock"} /\ iqMu = NoOwner
  /\ iqMu' = w
  /\ pcW' = [pcW EXCEPT ![w] = "pop_check"]
  /\ UNCHANGED <<cfg, input, currLine, pcP, prodLine, iqQueue, iqWaiters, wItem,
                 wProcessed, wSend, popCount, cqResults, cqMu, nextID, completionChan,
                 pcC, terminated, outputLine, output, crashed, lineVars, nvVars>>

\* SafeQueue.WaitToPop: len(q.queue) == 0, q.cond.Wait() registers the
\* goroutine and releases the mutex
WorkerWait(w) ==
  /\ ~crashed /\ pcW[w] = "pop_check" /\ iqMu = w
  /\ Len(iqQueue) = 0
  /\ iqWaiters' = iqWaiters \cup {w}
  /\ iqMu' = NoOwner
  /\ pcW' = [pcW EXCEPT ![w] = "waiting"]
  /\ UNCHANGED <<cfg, input, currLine, pcP, prodLine, iqQueue, wItem, wProcessed, wSend,
                 popCount, cqResults, cqMu, nextID, completionChan, pcC, terminated,
                 outputLine, output, crashed, lineVars, nvVars>>

\* SafeQueue.WaitToPop: item := q.queue[0]; q.queue = q.queue[1:]; Unlock
SafeQueuePop(w) ==
  /\ wItem' = [wItem EXCEPT ![w] = iqQueue[1]]
  /\ popCount' = [popCount EXCEPT ![iqQueue[1].Line] = @ + 1]
  /\ iqQueue' = Tail(iqQueue)
  /\ iqMu' = NoOwner

WorkerPop(w) ==
  /\ ~crashed /\ pcW[w] = "pop_check" /\ iqMu = w
  /\ Len(iqQueue) > 0
  /\ SafeQueuePop(w)
  /\ pcW' = [pcW EXCEPT ![w] = "process"]
  /\ UNCHANGED <<cfg, input, currLine, pcP, prodLine, iqWaiters, wProcessed, wSend,
                 cqResults, cqMu, nextID, completionChan, pcC, terminated, outputLine,
                 output, crashed, lineVars, nvVars>>

\* processed, err := view.ProcessLine(line.Content); an unrecovered panic in
\* a goroutine ends the process
WorkerProcess(w) ==
  /\ ~crashed /\ pcW[w] = "process"
  /\ LET r == ProcessLineNoMatch(cfg, wItem[w].Content)
     IN IF r.panic
        THEN /\ crashed' = TRUE
             /\ pcW' = [pcW EXCEPT ![w] = "panicked"]
             /\ UNCHANGED wProcessed
        ELSE /\ wProcessed' = [wProcessed EXCEPT ![w] =
                                 IF r.err THEN <<"Line", wItem[w].Line>> ELSE r.out]
             /\ pcW' = [pcW EXCEPT ![w] = "cpush_lock"]
             /\ UNCHANGED crashed
  /\ UNCHANGED <<cfg, input, currLine, pcP, prodLine, iqQueue, iqMu, iqWaiters, wItem,
                 wSend, popCount, cqResults, cqMu, nextID, completionChan, pcC,
                 terminated, outputLine, output, lineVars, nvVars>>

\* OrderPreservingCompletionQueue.Push: q.mu.Lock()
WorkerCPushLock(w) ==
  /\ ~crashed /\ pcW[w] = "cpush_lock" /\ cqMu = NoOwner
  /\ cqMu' = w
  /\ pcW' = [pcW EXCEPT ![w] = "cpush_insert"]
  /\ UNCHANGED <<cfg, input, currLine, pcP, prodLine, iqQueue, iqMu, iqWaiters, wItem,
                 wProcessed, wSend, popCount, cqResults, nextID, completionChan, pcC,
                 terminated, outputLine, output, crashed, lineVars, nvVars>>

\* map assignment m[k] = v
MapPut(m, k, v) == [x \in (DOMAIN m) \cup {k} |-> IF x = k THEN v ELSE m[x]]
\* delete(m, k)
MapDelete(m, k) == [x \in (DOMAIN m) \ {k} |-> m[x]]

\* Push: q.results[idx] = item; if idx != q.nextID { return }
CompletionInsert(w) ==
  /\ cqResults' = MapPut(cqResults, wItem[w].Line, wProcessed[w])
  /\ IF wItem[w].Line # nextID
     THEN /\ cqMu' = NoOwner
          /\ pcW' = [pcW EXCEPT ![w] = "pop_lock"]
     ELSE /\ pcW' = [pcW EXCEPT ![w] = "cpush_loop"]
          /\ UNCHANGED cqMu

WorkerCPushInsert(w) ==
  /\ ~crashed /\ pcW[w] = "cpush_insert" /\ cqMu = w
  /\ CompletionInsert(w)
  /\ wItem' = [wItem EXCEPT ![w] = IF pcW'[w] = "pop_lock" THEN NoItem ELSE @]
  /\ wProcessed' = [wProcessed EXCEPT ![w] = <<>>]
  /\ UNCHANGED <<cfg, input, currLine, pcP, prodLine, iqQueue, iqMu, iqWaiters, wSend,
                 popCount, nextID, completionChan, pcC, terminated, outputLine, output,
                 crashed, lineVars, nvVars>>

\* Push, the drain loop: if item, ok := q.results[q.nextID]; ok { delete;
\* q.nextID++; (send) } else { break }, then the deferred Unlock
CompletionDrainStepAnyKey(w) ==
  IF DOMAIN cqResults # {}
  THEN \E k \in DOMAIN cqResults :
         /\ wSend' = [wSend EXCEPT ![w] = [seq |-> k, val |-> cqResults[k]]]
         /\ cqResults' = MapDelete(cqResults, k)
         /\ nextID' = nextID + 1
         /\ pcW' = [pcW EXCEPT ![w] = "cpush_send"]
         /\ UNCHANGED <<cqMu, wItem>>
  ELSE /\ cqMu' = NoOwner
       /\ pcW' = [pcW EXCEPT ![w] = "pop_lock"]
       /\ wItem' = [wItem EXCEPT ![w] = NoItem]
       /\ UNCHANGED <<wSend, cqResults, nextID>>

CompletionDrainStep(w) ==
  IF nextID \in DOMAIN cqResults
  THEN /\ wSend' = [wSend EXCEPT ![w] = [seq |-> nextID, val |-> cqResults[nextID]]]
       /\ cqResults' = MapDelete(cqResults, nextID)
       /\ nextID' = nextID + 1
       /\ pcW' = [pcW EXCEPT ![w] = "cpush_send"]
       /\ UNCHANGED <<cqMu, wItem>>
  ELSE /\ cqMu' = NoOwner
       /\ pcW' = [pcW EXCEPT ![w] = "pop_lock"]
       /\ wItem' = [wItem EXCEPT ![w] = NoItem]
       /\ UNCHANGED <<wSend, cqResults, nextID>>

WorkerCPushLoop(w) ==
  /\ ~crashed /\ pcW[w] = "cpush_loop" /\ cqMu = w
  /\ CompletionDrainStep(w)
  /\ UNCHANGED <<cfg, input, currLine, pcP, prodLine, iqQueue, iqMu, iqWaiters,
                 wProcessed, popCount, completionChan, pcC, terminated, outputLine,
                 output, crashed, lineVars, nvVars>>

\* q.completionChan <- item: blocks, with the mutex held, while the channel
\* is full
WorkerCPushSend(w) ==
  /\ ~crashed /\ pcW[w] = "cpush_send" /\ cqMu = w
  /\ Len(completionChan) < ChanCap
  /\ completionChan' = Append(completionChan, wSend[w])
  /\ wSend' = [wSend EXCEPT ![w] = NoSend]
  /\ pcW' = [pcW EXCEPT ![w] = "cpush_loop"]
  /\ UNCHANGED <<cfg, input, currLine, pcP, prodLine, iqQueue, iqMu, iqWaiters, wItem,
                 wProcessed, popCount, cqResults, cqMu, nextID, pcC, terminated,
                 outputLine, output, crashed, lineVars, nvVars>>

(***************************************************************************)
(* Consumer loop (cmd view, README.md:209-221).                            *)
(***************************************************************************)
\* case line := <-completionChan: println(line); outputLine++
ConsumerRecvLine ==
  /\ ~crashed /\ pcC = "select"
  /\ Len(completionChan) > 0
  /\ output' = Append(output, Head(completionChan))
  /\ completionChan' = Tail(completionChan)
  /\ outputLine' = outputLine + 1
  /\ pcC' = "check"
  /\ UNCHANGED <<cfg, input, currLine, pcP, prodLine, iqQueue, iqMu, iqWaiters, pcW,
                 wItem, wProcessed, wSend, popCount, cqResults, cqMu, nextID,
                 terminated, crashed, lineVars, nvVars>>

\* case <-terminationChan: the unbuffered channel hands over when the
\* producer is at `terminationChan <- 1`
ConsumerRecvTermination ==
  /\ ~crashed /\ pcC = "select"
  /\ pcP = "term"
  /\ terminated' = TRUE
  /\ pcP' = "done"
  /\ pcC' = "check"
  /\ UNCHANGED <<cfg, input, currLine, prodLine, iqQueue, iqMu, iqWaiters, pcW, wItem,
                 wProcessed, wSend, popCount, cqResults, cqMu, nextID, completionChan,
                 outputLine, output, crashed, lineVars, nvVars>>

\* if terminated && int(currLine.Load()) == outputLine { return }
ConsumerExitOnEOFOnly == terminated

ConsumerExitCondition == terminated /\ currLine = outputLine

ConsumerCheck ==
  /\ ~crashed /\ pcC = "check"
  /\ pcC' = IF ConsumerExitCondition THEN "done" ELSE "select"
  /\ UNCHANGED <<cfg, input, currLine, pcP, prodLine, iqQueue, iqMu, iqWaiters, pcW,
                 wItem, wProcessed, wSend, popCount, cqResults, cqMu, nextID,
                 completionChan, terminated, outputLine, output, crashed, lineVars, nvVars>>

Next ==
  \/ ProducerScan
  \/ ProducerPushLock
  \/ ProducerPushAppend
  \/ \E w \in Workers : WorkerPopLock(w)
  \/ \E w \in Workers : WorkerWait(w)
  \/ \E w \in Workers : WorkerPop(w)
  \/ \E w \in Workers : WorkerProcess(w)
  \/ \E w \in Workers : WorkerCPushLock(w)
  \/ \E w \in Workers : WorkerCPushInsert(w)
  \/ \E w \in Workers : WorkerCPushLoop(w)
  \/ \E w \in Workers : WorkerCPushSend(w)
  \/ ConsumerRecvLine
  \/ ConsumerRecvTermination
  \/ ConsumerCheck

Spec == Init /\ [][Next]_vars

ProducerNext == ProducerScan \/ ProducerPushLock \/ ProducerPushAppend
WorkerNext(w) ==
  \/ WorkerPopLock(w) \/ WorkerWait(w) \/ WorkerPop(w) \/ WorkerProcess(w)
  \/ WorkerCPushLock(w) \/ WorkerCPushInsert(w) \/ WorkerCPushLoop(w) \/ WorkerCPushSend(w)
ConsumerNext == ConsumerRecvLine \/ ConsumerRecvTermination \/ ConsumerCheck

\* The Go scheduler is preemptive: a goroutine that stays runnable runs.
FairSpec ==
  /\ Spec
  /\ WF_vars(ProducerNext)
  /\ \A w \in Workers : WF_vars(WorkerNext(w))
  /\ WF_vars(ConsumerNext)

(***************************************************************************)
(* Validate, then ProcessLine on line after line (cmd view,                *)
(* README.md:146-149; internal/view.go:254-271).                           *)
(***************************************************************************)
StartCharPosChars == {" ", "0", "1", "2", "-", "+"}
LineChars == {" ", "a"}

\* seed scenario 5 of the specification
SeedLine5 ==
  <<"2", "0", "2", "4", "-", "0", "1", "-", "0", "1", " ", "1",
     "2", ":", "0", "0", ":", "0", "0", " ", "e", "r", "r", " ",
     "5", " ", "b", "y", "t", "e", "s", "=", "9">>
\* the body the specification names for it, and the body after the 2nd space
SeedBody5Claimed ==
  <<"1", "2", ":", "0", "0", ":", "0", "0", " ", "e", "r", "r",
     " ", "5", " ", "b", "y", "t", "e", "s", "=", "9">>
SeedBody5 ==
  <<"e", "r", "r", " ", "5", " ", "b", "y", "t", "e", "s", "=",
     "9">>

Lines == SeqsUpTo(LineChars, MaxLineLen) \cup {SeedLine5}

ConfigsOver(mmcs, mmws, mmrs, sps, scws) ==
  {[MinMatchChars |-> mmc, MinMatchWordChars |-> mmw, MinMatchedRatio |-> mmr,
    StartPos |-> sp, StartCharPos |-> scp, SourceColumnWidth |-> scw,
    SkipPrintArgumentExpr |-> FALSE, ProjectFilter |-> <<>>] :
     mmc \in mmcs, mmw \in mmws, mmr \in mmrs, sp \in sps,
     scp \in SeqsUpTo(StartCharPosChars, MaxStartCharPosLen), scw \in scws}

\* configurations for the prefix strip: every start mode, well formed or not
LineConfigs == ConfigsOver({-1, 4}, {3}, {3}, {-1, 0, 1, 2}, {-1, 4})

\* configurations for Validate: every bounded field inside and outside its
\* documented range
AllConfigs == ConfigsOver({-1, 4}, {-1, 3}, {-1, 3}, {-1, 0, 1, 2}, {-1, 4})

LineStart ==
  /\ vpc = "start"
  /\ line = <<>>
  /\ startPos = 0
  /\ prefix = <<>>
  /\ lineToMatch = <<>>
  /\ MatchIdle
  /\ CacheIdle

InitLine ==
  /\ cfg \in LineConfigs
  /\ PipelineStart(<<>>)
  /\ LineStart
  /\ ViewerIdle

InitConfig ==
  /\ cfg \in AllConfigs
  /\ PipelineStart(<<>>)
  /\ LineStart
  /\ ViewerIdle

\* config.Validate(); an error is fatal (log.Fatal) and NewViewer is not
\* reached
ValidateConfig ==
  /\ vpc = "start"
  /\ vpc' = IF Validate(cfg) = "ok" THEN "validated" ELSE "rejected"
  /\ UNCHANGED <<cfg, pipeVars, nvVars, line, startPos, prefix, lineToMatch, matchVars>>

\* Viewer.ProcessLine(l) up to line 271; the Viewer is not modified
ProcessLineStrip(l) ==
  /\ vpc \in {"validated", "stripped"}
  /\ LET s == StripPrefix(cfg, l)
     IN /\ vpc' = IF s.panic THEN "panic" ELSE "stripped"
        /\ line' = l
        /\ startPos' = s.startPos
        /\ prefix' = s.prefix
        /\ lineToMatch' = s.lineToMatch
  /\ UNCHANGED <<cfg, pipeVars, nvVars, matchVars>>

NextLine ==
  \/ ValidateConfig
  \/ \E l \in Lines : ProcessLineStrip(l)

SpecLine == InitLine /\ [][NextLine]_vars

SpecConfig == InitConfig /\ [][NextLine]_vars

(***************************************************************************)
(* Properties of the pipeline.                                             *)
(***************************************************************************)
\* what the consumer prints for a complete run: ProcessLine of each line
ExpectedOutput == [i \in 1..Len(input) |-> ProcessLineNoMatch(cfg, input[i]).out]
Forwarded == output \o completionChan

\* C1: for any interleaving of the workers' Push calls, the items forwarded
\* on the completion channel, and so the lines the consumer writes, carry
\* the sequence numbers 0, 1, 2, ... in this order (exact input order).
C1_OrderPreservation ==
  \A i \in 1..Len(Forwarded) : Forwarded[i].seq = i - 1

\* a later line completed first and waits in the sparse map while earlier
\* lines have already been written
C1_Witness ==
  /\ Len(output) >= 1
  /\ \E k \in DOMAIN cqResults : k > nextID

\* C2: for every finite input of n lines the consumer emits exactly n
\* lines, the i-th being ProcessLine of the i-th input line, and no line is
\* handed to more than one worker.
C2_EveryLineOnce ==
  /\ [](\A i \in DOMAIN popCount : popCount[i] <= 1)
  /\ <>(/\ Len(output) = Len(input)
        /\ \A i \in 1..Len(output) : output[i].val = ExpectedOutput[i])

\* C3: the consumer loop returns only after EOF was signalled and as many
\* lines were emitted as produced; no produced line is then still queued,
\* being processed, or buffered in the completion queue.
C3_ConsumerExit ==
  pcC = "done" =>
    /\ terminated
    /\ pcP = "done"
    /\ outputLine = currLine
    /\ currLine = Len(input)
    /\ Len(output) = Len(input)
    /\ iqQueue = <<>>
    /\ \A w \in Workers : pcW[w] \notin {"process", "cpush_lock", "cpush_insert", "cpush_send"}
    /\ cqResults = <<>>
    /\ completionChan = <<>>

C3_Witness ==
  /\ pcC = "done"
  /\ Len(input) >= 2
  /\ Len(output) = Len(input)

\* C4: under fair scheduling and a finite input the pipeline terminates:
\* the producer signals EOF, every produced line is emitted and the
\* consumer exits (so no state before that is a deadlock).
C4_Terminates ==
  <>(/\ pcP = "done"
     /\ Len(output) = Len(input)
     /\ pcC = "done")

(***************************************************************************)
(* Properties of Validate and of the prefix strip.                         *)
(***************************************************************************)
Occurrences(s, c) == Cardinality({i \in 1..Len(s) : s[i] = c})
Processed == vpc \in {"stripped", "panic"}
StartChar == cfg.StartCharPos[1]
StartIdx == Atoi(SliceFrom(cfg.StartCharPos, 1)).val

\* C5: with start_char_pos = <char><idx> and at least idx occurrences of
\* <char> in the line, the prefix ends with the idx-th occurrence of <char>
\* and the body starts right after it.
C5_SplitAfterIdxOccurrence ==
  (Processed /\ Len(cfg.StartCharPos) > 0 /\ Occurrences(line, StartChar) >= StartIdx) =>
    /\ vpc = "stripped"
    /\ Len(prefix) >= 1
    /\ prefix[Len(prefix)] = StartChar
    /\ Occurrences(prefix, StartChar) = StartIdx
    /\ prefix \o lineToMatch = line
    /\ startPos = Len(prefix)

C5_Witness ==
  /\ vpc = "stripped"
  /\ Len(cfg.StartCharPos) > 0
  /\ StartIdx = 2
  /\ Occurrences(line, StartChar) > StartIdx
  /\ Len(lineToMatch) > 0

\* C6 as stated: with start_char_pos = " 2" the line of seed scenario 5 is
\* matched from after its second space, on the body `12:00:00 err 5 bytes=9`.
C6_SeedScenario5 ==
  (Processed /\ cfg.StartCharPos = <<" ", "2">> /\ line = SeedLine5) =>
    /\ vpc = "stripped"
    /\ lineToMatch = SeedBody5Claimed

\* C6, amended: with start_char_pos = " 2" the line of seed scenario 5 is
\* matched from after its second space, on the body `err 5 bytes=9` (the
\* body `12:00:00 err 5 bytes=9` is the one after the first space).
C6_SeedBodyAfterSecondSpace ==
  (Processed /\ cfg.StartCharPos = <<" ", "2">> /\ line = SeedLine5) =>
    /\ vpc = "stripped"
    /\ Occurrences(prefix, " ") = 2
    /\ lineToMatch = SeedBody5

C6_Witness ==
  /\ vpc = "stripped"
  /\ cfg.StartCharPos = <<" ", "2">>
  /\ line = SeedLine5
  /\ Len(prefix) = 20

\* C7: with start_char_pos = <char><idx> and fewer than idx occurrences of
\* <char> in the line, the offset is len(line) - 1: the prefix is all but
\* the last byte and the body is the last byte.
C7_FewerOccurrences ==
  (Processed /\ Len(cfg.StartCharPos) > 0 /\ Occurrences(line, StartChar) < StartIdx) =>
    /\ vpc = "stripped"
    /\ startPos = Len(line) - 1
    /\ prefix = SliceTo(line, Len(line) - 1)
    /\ lineToMatch = <<line[Len(line)]>>

Accepted == vpc \in {"validated", "stripped", "panic"}

\* C8 as stated: an accepted ViewConfig has either start_pos >= 1 or
\* start_char_pos set, never both, and start_char_pos is a character
\* followed by a positive decimal index.
C8_EitherStartMode ==
  Accepted =>
    /\ (cfg.StartPos >= 1) # (Len(cfg.StartCharPos) > 0)
    /\ Len(cfg.StartCharPos) > 0 =>
         /\ Len(cfg.StartCharPos) >= 2
         /\ \A i \in 2..Len(cfg.StartCharPos) : cfg.StartCharPos[i] \in Digits
         /\ \E i \in 2..Len(cfg.StartCharPos) : cfg.StartCharPos[i] # "0"

\* C8, amended: an accepted ViewConfig has start_pos >= 0 and never both
\* start_pos > 1 and start_char_pos set; start_char_pos, when set, is one
\* byte followed by a decimal integer, optionally signed "+", of value >= 1.
C8_StartModeAccepted ==
  Accepted =>
    /\ cfg.StartPos >= 0
    /\ ~(cfg.StartPos > 1 /\ Len(cfg.StartCharPos) > 0)
    /\ Len(cfg.StartCharPos) > 0 =>
         /\ Len(cfg.StartCharPos) >= 2
         /\ LET rest == SliceFrom(cfg.StartCharPos, 1)
                digits == IF rest[1] = "+" THEN Tail(rest) ELSE rest
            IN /\ Len(digits) >= 1
               /\ \A i \in 1..Len(digits) : digits[i] \in Digits
               /\ \E i \in 1..Len(digits) : digits[i] # "0"

C8_Witness ==
  /\ vpc = "validated"
  /\ cfg.StartPos = 1
  /\ cfg.StartCharPos = <<" ", "+", "2">>

\* C9: Validate rejects every ViewConfig with a negative min_match_chars,
\* min_match_word_chars, min_matched_ratio, start_pos or
\* source_column_width; such a configuration never reaches NewViewer.
C9_NegativeRejected ==
  (/\ vpc # "start"
   /\ \/ cfg.MinMatchChars < 0
      \/ cfg.MinMatchWordChars < 0
      \/ cfg.MinMatchedRatio < 0
      \/ cfg.StartPos < 0
      \/ cfg.SourceColumnWidth < 0) => vpc = "rejected"

(***************************************************************************)
(* ParsePrintfFormat (internal/parse.go): the specifiers that specRe finds *)
(* in a format string, and the minimum width Hyperscan reports for the     *)
(* prefilter pattern built from it.                                        *)
(***************************************************************************)
FlagChars == {"#", "+", "0", "-", " "}
LengthModifiers == {"h", "l", "L", "j", "z", "t"}
ConvChars == {"d", "i", "u", "o", "x", "X", "f", "F", "e", "E", "g", "G", "a", "A",
              "c", "s", "p"}

\* first index >= i of f that is past the end or not in S
RECURSIVE SkipWhile(_, _, _)
SkipWhile(f, i, S) ==
  IF i > Len(f) \/ f[i] \notin S THEN i ELSE SkipWhile(f, i + 1, S)

\* index of the conversion character of the specifier that starts at i, or 0:
\* %([#+0\- ]*)(\d*)(?:\.(\d+))?[hlLjzt]*([diuoxXfFeEgGaAcsp])
SpecEnd(f, i) ==
  IF f[i] # "%" THEN 0
  ELSE LET a == SkipWhile(f, i + 1, FlagChars)
           b == SkipWhile(f, a, Digits)
           c == IF b + 1 <= Len(f) /\ f[b] = "." /\ f[b + 1] \in Digits
                THEN SkipWhile(f, b + 1, Digits)
                ELSE b
           d == SkipWhile(f, c, LengthModifiers)
       IN IF d <= Len(f) /\ f[d] \in ConvChars THEN d ELSE 0

\* specRe.FindAllStringSubmatchIndex: leftmost, non-overlapping
RECURSIVE FindSpecs(_, _)
FindSpecs(f, i) ==
  IF i > Len(f) THEN <<>>
  ELSE LET e == SpecEnd(f, i)
       IN IF e > 0
          THEN <<[start |-> i, end |-> e, spec |-> f[e]]>> \o FindSpecs(f, e + 1)
          ELSE FindSpecs(f, i + 1)

ParsePrintfFormat(format) ==
  LET matches == FindSpecs(format, 1)
  IN [ArgCnt |-> Len(matches), matches |-> matches]

\* minimum number of bytes hsArgPattern matches, per conversion
HSArgMinWidth(spec) ==
  CASE spec \in {"d", "i", "u", "o", "x", "X", "f", "F", "g", "G", "c", "s"} -> 1
    [] spec \in {"e", "E", "a", "A", "p"} -> 3

\* hsPat.Info().MinWidth of parsed.HyperScanRegex + "$": the escaped
\* literals match themselves, each specifier at least HSArgMinWidth bytes
RECURSIVE HSMinWidthFrom(_, _)
HSMinWidthFrom(f, i) ==
  IF i > Len(f) THEN 0
  ELSE LET e == SpecEnd(f, i)
       IN IF e > 0 THEN HSArgMinWidth(f[e]) + HSMinWidthFrom(f, e + 1)
          ELSE 1 + HSMinWidthFrom(f, i + 1)

HSMinWidthAtLeastOne(format) == 1
HSMinWidth(format) == HSMinWidthFrom(format, 1)

(***************************************************************************)
(* NewViewer (internal/view.go:131-207).                                   *)
(***************************************************************************)
MaxDefinitions == 2
MaxCalls == 2

LogCallSyntaxPrintflike == "printflike"

\* definitionsMap[def.ID] = &def over calls.Definitions: a later definition
\* with the same ID replaces an earlier one; where the loop has a single
\* variable def, every entry points at it and reads the last definition
DefinitionsMap(defs, perIteration) ==
  [id \in {defs[k].ID : k \in 1..Len(defs)} |->
     LET last == CHOOSE k \in 1..Len(defs) :
                   defs[k].ID = id /\ \A j \in (k + 1)..Len(defs) : defs[j].ID # id
     IN IF perIteration THEN defs[last] ELSE defs[Len(defs)]]

NextPatternIDFromZero(m) == Cardinality(DOMAIN m)
\* hsPat.Id = len(compiledAllPatternIDToLogCallMap) + 1
NextPatternID(m) == Cardinality(DOMAIN m) + 1

\* range corpus: the next project, in the order the map iteration gives;
\* a project outside a non-empty ProjectFilter is skipped
NewViewerNextProject ==
  /\ nvPc = "projects"
  /\ IF nvTodo = {}
     THEN /\ nvPc' = "build"
          /\ UNCHANGED <<nvTodo, nvProject, nvCall>>
     ELSE \E project \in nvTodo :
            /\ nvTodo' = nvTodo \ {project}
            /\ IF Len(cfg.ProjectFilter) > 0
                  /\ \A k \in 1..Len(cfg.ProjectFilter) : cfg.ProjectFilter[k] # project
               THEN UNCHANGED <<nvPc, nvProject, nvCall>>
               ELSE /\ nvProject' = project
                    /\ nvCall' = 0
                    /\ nvPc' = "calls"
  /\ UNCHANGED <<cfg, pipeVars, lineVars, corpus, loopVarPerIteration, compiledRegex,
                 hsPatterns, compiledAllPatternIDToLogCallMap, definitionIDToDefinitionMap>>

\* one iteration of `for i, call := range calls.Calls`; the patterns built
\* from the bounded formats compile
NewViewerCall ==
  /\ nvPc = "calls"
  /\ LET calls == corpus[nvProject].Calls
         definitionsMap == DefinitionsMap(corpus[nvProject].Definitions, loopVarPerIteration)
     IN IF nvCall >= Len(calls)
        THEN /\ nvPc' = "defs"
             /\ UNCHANGED <<nvCall, compiledRegex, hsPatterns,
                            compiledAllPatternIDToLogCallMap>>
        ELSE LET call == calls[nvCall + 1]
                 ref == [Project |-> nvProject, CallIndex |-> nvCall]
                 id == NextPatternID(compiledAllPatternIDToLogCallMap)
             IN IF call.DefinitionID \notin DOMAIN definitionsMap
                THEN \* def is nil: def.Syntax dereferences a nil pointer
                     /\ nvPc' = "panic"
                     /\ UNCHANGED <<nvCall, compiledRegex, hsPatterns,
                                    compiledAllPatternIDToLogCallMap>>
                ELSE IF definitionsMap[call.DefinitionID].Syntax # LogCallSyntaxPrintflike
                THEN /\ nvPc' = "error"
                     /\ UNCHANGED <<nvCall, compiledRegex, hsPatterns,
                                    compiledAllPatternIDToLogCallMap>>
                ELSE /\ compiledRegex' = compiledRegex \cup {ref}
                     /\ nvCall' = nvCall + 1
                     /\ IF HSMinWidth(call.FormatString) = 0
                        THEN UNCHANGED <<nvPc, hsPatterns, compiledAllPatternIDToLogCallMap>>
                        ELSE /\ hsPatterns' = Append(hsPatterns, [Id |-> id, Ref |-> ref])
                             /\ IF id \in DOMAIN compiledAllPatternIDToLogCallMap
                                THEN /\ nvPc' = "error"
                                     /\ UNCHANGED compiledAllPatternIDToLogCallMap
                                ELSE /\ compiledAllPatternIDToLogCallMap' =
                                          MapPut(compiledAllPatternIDToLogCallMap, id, ref)
                                     /\ UNCHANGED nvPc
  /\ UNCHANGED <<cfg, pipeVars, lineVars, corpus, loopVarPerIteration, nvTodo, nvProject,
                 definitionIDToDefinitionMap>>

\* the second loop over calls.Definitions: a definition ID already in
\* DefinitionIDToDefinitionMap is an error
RECURSIVE RegisterDefinitions(_, _, _, _)
RegisterDefinitions(defs, k, m, perIteration) ==
  IF k > Len(defs) THEN [err |-> FALSE, map |-> m]
  ELSE IF defs[k].ID \in DOMAIN m THEN [err |-> TRUE, map |-> m]
  ELSE RegisterDefinitions(defs, k + 1,
         MapPut(m, defs[k].ID, IF perIteration THEN defs[k] ELSE defs[Len(defs)]),
         perIteration)

NewViewerDefinitions ==
  /\ nvPc = "defs"
  /\ LET r == RegisterDefinitions(corpus[nvProject].Definitions, 1,
                                  definitionIDToDefinitionMap, loopVarPerIteration)
     IN /\ nvPc' = IF r.err THEN "error" ELSE "projects"
        /\ definitionIDToDefinitionMap' = r.map
  /\ UNCHANGED <<cfg, pipeVars, lineVars, corpus, loopVarPerIteration, nvTodo, nvProject,
                 nvCall, compiledRegex, hsPatterns, compiledAllPatternIDToLogCallMap>>

\* buildOrLoadCachedHSPatternsDB: the cache directory may fail
NewViewerBuild ==
  /\ nvPc = "build"
  /\ \E ioOk \in BOOLEAN : nvPc' = IF ioOk THEN "ok" ELSE "error"
  /\ UNCHANGED <<cfg, pipeVars, lineVars, corpus, loopVarPerIteration, nvTodo, nvProject,
                 nvCall, compiledRegex, hsPatterns, compiledAllPatternIDToLogCallMap,
                 definitionIDToDefinitionMap>>

\* bounded corpora
ProjectNames == {"p", "q"}
DefinitionPool ==
  {[ID |-> "d1", Syntax |-> "printflike", LinkTemplate |-> "l1"],
   [ID |-> "d2", Syntax |-> "printflike", LinkTemplate |-> "l2"],
   [ID |-> "d2", Syntax |-> "custom", LinkTemplate |-> "l3"]}
FormatPool == {<<>>, <<"e", "%", "d">>, <<"%", "5", ".", "2", "f", "%", "%">>}
CallPool ==
  {[DefinitionID |-> d, FormatString |-> f, ArgumentExprs |-> a,
    File |-> <<"a", ".", "c">>, Line |-> 10] :
     d \in {"d1", "d2"}, f \in FormatPool, a \in {<<>>, <<<<"x">>>>}}
SmallCorpusFiles ==
  {[Definitions |-> <<d>>, Calls |-> c] :
     d \in DefinitionPool,
     c \in {<<>>, <<[DefinitionID |-> "d1", FormatString |-> <<"e", "%", "d">>,
                     ArgumentExprs |-> <<<<"x">>>>, File |-> <<"b", ".", "c">>,
                     Line |-> 7]>>}}
CorpusFiles ==
  {[Definitions |-> ds, Calls |-> cs] :
     ds \in SeqsUpTo(DefinitionPool, MaxDefinitions), cs \in SeqsUpTo(CallPool, MaxCalls)}
Corpora ==
  {[n \in {"p"} |-> pf] : pf \in CorpusFiles}
    \cup {[n \in ProjectNames |-> IF n = "p" THEN pf ELSE qf] :
            pf \in CorpusFiles, qf \in SmallCorpusFiles}

ViewerConfigs ==
  {[DefaultConfig EXCEPT !.ProjectFilter = pf] : pf \in {<<>>, <<"p">>}}

\* Run: the configuration passed Validate, NewViewer starts
InitViewer ==
  /\ cfg \in ViewerConfigs
  /\ PipelineStart(<<>>)
  /\ LineIdle
  /\ corpus \in Corpora
  /\ loopVarPerIteration \in BOOLEAN
  /\ nvPc = "projects"
  /\ nvTodo = DOMAIN corpus
  /\ nvProject = ""
  /\ nvCall = 0
  /\ compiledRegex = {}
  /\ hsPatterns = <<>>
  /\ compiledAllPatternIDToLogCallMap = <<>>
  /\ definitionIDToDefinitionMap = <<>>

NextViewer ==
  \/ NewViewerNextProject
  \/ NewViewerCall
  \/ NewViewerDefinitions
  \/ NewViewerBuild

SpecViewer == InitViewer /\ [][NextViewer]_vars

(***************************************************************************)
(* Properties of NewViewer.                                                *)
(***************************************************************************)
Selected(project) ==
  \/ Len(cfg.ProjectFilter) = 0
  \/ \E k \in 1..Len(cfg.ProjectFilter) : cfg.ProjectFilter[k] = project

UnknownDefinition(project) ==
  LET f == corpus[project]
  IN \E i \in 1..Len(f.Calls) :
       \A k \in 1..Len(f.Definitions) : f.Definitions[k].ID # f.Calls[i].DefinitionID

Returned == nvPc \in {"ok", "error", "panic"}

\* C10: when a call of a selected project names a definition_id that no
\* definition of that project has, NewViewer returns an error value; it
\* neither crashes nor constructs a Viewer.
C10_UnknownDefinitionIsError ==
  (Returned /\ \E project \in DOMAIN corpus : Selected(project) /\ UnknownDefinition(project))
    => nvPc = "error"

ArgCountMismatch(project) ==
  LET f == corpus[project]
  IN \E i \in 1..Len(f.Calls) :
       ParsePrintfFormat(f.Calls[i].FormatString).ArgCnt # Len(f.Calls[i].ArgumentExprs)

\* C11: NewViewer constructs a Viewer only when every call of every selected
\* project has as many argument expressions as its format string has
\* specifiers; a call whose counts differ makes construction fail.
C11_ArgCountMismatchRejected ==
  nvPc = "ok" => \A project \in DOMAIN corpus : Selected(project) => ~ArgCountMismatch(project)

(***************************************************************************)
(* The patterns ParsePrintfFormat writes (internal/parse.go:28-316), as    *)
(* syntax trees, and their matching: PCRE2 for the confirm pattern         *)
(* (backtracking, leftmost, alternatives and quantifiers tried in priority *)
(* order), Hyperscan for the prefilter pattern (every end offset).         *)
(***************************************************************************)
RLit(c) == [t |-> "lit", c |-> c]
RCls(S) == [t |-> "cls", S |-> S]
RAny == [t |-> "any"]
RCat(items) == [t |-> "cat", items |-> items]
RAlt(items) == [t |-> "alt", items |-> items]
RRep(r, lo, hi, greedy) == [t |-> "rep", r |-> r, lo |-> lo, hi |-> hi, greedy |-> greedy]
RGrp(name, r) == [t |-> "grp", name |-> name, r |-> r]
RLook(r) == [t |-> "look", r |-> r]
REol == [t |-> "eol"]
Unbounded == -1
ROpt(r) == RRep(r, 0, 1, TRUE)
\* regexp.QuoteMeta(literal): every byte matches itself
QuoteMeta(literal) == RCat([k \in 1..Len(literal) |-> RLit(literal[k])])

\* the end of a group, used while matching
RClose(name, from) == [t |-> "close", name |-> name, from |-> from]

\* one alternative of the backtracking matcher: the patterns still to match
\* in sequence, the index (1-based) of the next byte, the spans of the groups
Frame(todo, pos, caps) == [todo |-> todo, pos |-> pos, caps |-> caps]
\* the matches a backtracking matcher finds, the first one first: the
\* alternatives are kept in the order it tries them (a greedy quantifier
\* tries one more repetition first, a lazy one tries to stop first,
\* alternatives from left to right)
RECURSIVE Backtrack(_, _)
Backtrack(stack, s) ==
  IF Len(stack) = 0 THEN <<>>
  ELSE IF Len(stack) > 1
  THEN Backtrack(<<Head(stack)>>, s) \o Backtrack(Tail(stack), s)
  ELSE LET fr == Head(stack)
           others == Tail(stack)
       IN IF Len(fr.todo) = 0
          THEN <<[pos |-> fr.pos, caps |-> fr.caps]>> \o Backtrack(others, s)
          ELSE LET re == Head(fr.todo)
                   k == Tail(fr.todo)
                   i == fr.pos
                   fewer == [re EXCEPT !.lo = IF @ > 0 THEN @ - 1 ELSE 0,
                                       !.hi = IF @ = Unbounded THEN @ ELSE @ - 1]
               IN CASE re.t \in {"lit", "cls", "any"} ->
                         IF /\ i <= Len(s)
                            /\ \/ re.t = "lit" /\ s[i] = re.c
                               \/ re.t = "cls" /\ s[i] \in re.S
                               \/ re.t = "any" /\ s[i] # "\n"
                         THEN Backtrack(<<Frame(k, i + 1, fr.caps)>> \o others, s)
                         ELSE Backtrack(others, s)
                    [] re.t \in {"eol", "look"} ->
                         IF \/ re.t = "eol" /\ i = Len(s) + 1
                            \/ /\ re.t = "look"
                               /\ Len(Backtrack(<<Frame(<<re.r>>, i, fr.caps)>>, s)) > 0
                         THEN Backtrack(<<Frame(k, i, fr.caps)>> \o others, s)
                         ELSE Backtrack(others, s)
                    [] re.t = "close" ->
                         Backtrack(<<Frame(k, i, MapPut(fr.caps, re.name,
                                                        [from |-> re.from, to |-> i]))>>
                                     \o others, s)
                    [] re.t = "grp" ->
                         Backtrack(<<Frame(<<re.r, RClose(re.name, i)>> \o k, i, fr.caps)>>
                                     \o others, s)
                    [] re.t = "cat" ->
                         Backtrack(<<Frame(re.items \o k, i, fr.caps)>> \o others, s)
                    [] re.t = "alt" ->
                         Backtrack([j \in 1..Len(re.items) |->
                                      Frame(<<re.items[j]>> \o k, i, fr.caps)] \o others, s)
                    [] re.t = "rep" ->
                         LET more == Frame(<<re.r, fewer>> \o k, i, fr.caps)
                             stop == Frame(k, i, fr.caps)
                         IN Backtrack((IF re.lo > 0 THEN <<more>>
                                       ELSE IF re.hi = 0 THEN <<stop>>
                                       ELSE IF re.greedy THEN <<more, stop>>
                                       ELSE <<stop, more>>) \o others, s)

\* regex.MatcherString(s, 0): the first match at the leftmost start;
\* lo, hi are matcher.Index() (0-based, hi exclusive), caps the named groups
RECURSIVE SearchFrom(_, _, _)
SearchFrom(re, s, start) ==
  IF start > Len(s) + 1 THEN [matches |-> FALSE, lo |-> 0, hi |-> 0, caps |-> <<>>]
  ELSE LET rs == Backtrack(<<Frame(<<re>>, start, <<>>)>>, s)
       IN IF Len(rs) > 0
          THEN [matches |-> TRUE, lo |-> start - 1, hi |-> rs[1].pos - 1, caps |-> rs[1].caps]
          ELSE SearchFrom(re, s, start + 1)

Search(re, s) == SearchFrom(re, s, 1)

\* the end offsets at which a block-mode Hyperscan scan of s reports re:
\* every offset at which some match of re ends
ScanEnds(re, s) ==
  UNION {LET rs == Backtrack(<<Frame(<<re>>, start, <<>>)>>, s)
         IN {rs[k].pos - 1 : k \in 1..Len(rs)} : start \in 1..(Len(s) + 1)}

(***************************************************************************)
(* ParsePrintfFormat (internal/parse.go:44-316): the confirm pattern       *)
(* (Regex) and the prefilter pattern (HyperScanRegex) of a format string.  *)
(* The top-level group is named 0, the group of argument k is named k + 1. *)
(***************************************************************************)
HexDigits == Digits \cup {"A", "B", "C", "D", "E", "F", "a", "b", "c", "d", "e", "f"}
OctDigits == {"0", "1", "2", "3", "4", "5", "6", "7"}
DefaultFloatPrecision == 6

\* flags, width and precision of the specifier that starts at index i
SpecFlags(f, i) == {f[k] : k \in (i + 1)..(SkipWhile(f, i + 1, FlagChars) - 1)}

SpecWidth(f, i) ==
  LET a == SkipWhile(f, i + 1, FlagChars)
      widthStr == SubSeq(f, a, SkipWhile(f, a, Digits) - 1)
  IN IF widthStr # <<>> /\ ~Atoi(widthStr).err THEN Atoi(widthStr).val ELSE 0

SpecPrecision(f, i) ==
  LET b == SkipWhile(f, SkipWhile(f, i + 1, FlagChars), Digits)
      precStr == IF b + 1 <= Len(f) /\ f[b] = "." /\ f[b + 1] \in Digits
                 THEN SubSeq(f, b + 1, SkipWhile(f, b + 1, Digits) - 1)
                 ELSE <<>>
  IN IF precStr # <<>> /\ ~Atoi(precStr).err THEN Atoi(precStr).val ELSE -1

RSign == ROpt(RCls({"-", "+"}))
RDigit == RCls(Digits)
RHex == RCls(HexDigits)
RSome(r) == RRep(r, 1, Unbounded, TRUE)
RSomeLazy(r) == RRep(r, 1, Unbounded, FALSE)
RExactly(r, n) == RRep(r, n, n, TRUE)
RAtLeast(r, n) == RRep(r, n, Unbounded, TRUE)
RInf == QuoteMeta(<<"i", "n", "f">>)
RNan == QuoteMeta(<<"n", "a", "n">>)
RExp == RCat(<<RCls({"e", "E"}), RSign>>)

\* ncore of one specifier
ArgCore(spec, precision, altForm) ==
  LET p0 == IF precision < 0 THEN 0 ELSE precision
      p6 == IF precision < 0 THEN DefaultFloatPrecision ELSE precision
  IN CASE spec \in {"d", "i"} -> RCat(<<RSign, RAtLeast(RDigit, p0)>>)
       [] spec = "u" -> RAtLeast(RDigit, p0)
       [] spec = "o" ->
            RCat((IF altForm THEN <<ROpt(RLit("0"))>> ELSE <<>>)
                   \o <<RAtLeast(RCls(OctDigits), p0)>>)
       [] spec \in {"x", "X"} ->
            RCat((IF altForm THEN <<RLit("0"), ROpt(RCls({"x", "X"}))>> ELSE <<>>)
                   \o <<RAtLeast(RHex, p0)>>)
       [] spec \in {"f", "F"} ->
            RCat(<<RSign,
                   RAlt(<<RInf, RNan,
                          IF p6 = 0 /\ altForm THEN RCat(<<RSome(RDigit), RLit(".")>>)
                          ELSE IF p6 = 0 THEN RSome(RDigit)
                          ELSE RCat(<<RSome(RDigit),
                                      ROpt(RCat(<<RLit("."), RExactly(RDigit, p6)>>))>>)>>)>>)
       [] spec \in {"e", "E"} ->
            RCat(<<RSign,
                   RAlt(<<RInf, RNan,
                          RCat(<<RDigit>>
                                 \o (IF p6 > 0 THEN <<RLit("."), RExactly(RDigit, p6)>>
                                     ELSE IF altForm THEN <<RLit(".")>> ELSE <<>>)
                                 \o <<RExp, RSome(RDigit)>>)>>)>>)
       [] spec \in {"g", "G"} ->
            RCat(<<RSign,
                   RAlt(<<RInf, RNan,
                          RCat(<<RSome(RDigit),
                                 ROpt(RCat(<<RLit("."), RSome(RDigit)>>)),
                                 ROpt(RCat(<<RExp, RSome(RDigit)>>))>>)>>)>>)
       [] spec \in {"a", "A"} ->
            RCat(<<RSign,
                   RAlt(<<RInf, RNan,
                          RCat(<<RLit("0"), RCls({"x", "X"}), RSome(RHex)>>
                                 \o (IF p6 > 0 THEN <<RLit("."), RExactly(RHex, p6)>>
                                     ELSE IF altForm THEN <<RLit(".")>> ELSE <<>>)
                                 \o <<RCls({"p", "P"}), RSign, RSome(RDigit)>>)>>)>>)
       [] spec = "c" -> RAny
       [] spec = "s" ->
            IF precision >= 0 THEN RRep(RAny, 0, precision, TRUE) ELSE RSomeLazy(RAny)
       [] spec = "p" -> RCat(<<RLit("0"), RLit("x"), RSomeLazy(RHex)>>)

\* hsArgPattern of one specifier
HSArgPattern(spec) ==
  LET fraction == ROpt(RCat(<<RLit("."), RSomeLazy(RDigit)>>))
  IN CASE spec \in {"d", "i"} -> RCat(<<RSign, RSomeLazy(RDigit)>>)
       [] spec = "u" -> RSomeLazy(RDigit)
       [] spec = "o" -> RSomeLazy(RCls(OctDigits))
       [] spec \in {"x", "X"} -> RSomeLazy(RHex)
       [] spec \in {"f", "F"} ->
            RCat(<<RSign, RAlt(<<RCat(<<RSomeLazy(RDigit), fraction>>), RInf, RNan>>)>>)
       [] spec \in {"e", "E"} ->
            RCat(<<RSign,
                   RAlt(<<RCat(<<RSomeLazy(RDigit), fraction, RExp, RSomeLazy(RDigit)>>),
                          RInf, RNan>>)>>)
       [] spec \in {"g", "G"} ->
            RCat(<<RSign,
                   RAlt(<<RCat(<<RSomeLazy(RDigit), fraction,
                                 ROpt(RCat(<<RExp, RSomeLazy(RDigit)>>))>>),
                          RInf, RNan>>)>>)
       [] spec \in {"a", "A"} ->
            RCat(<<RSign,
                   RAlt(<<RCat(<<RLit("0"), RCls({"x", "X"}), RSomeLazy(RHex),
                                 ROpt(RCat(<<RLit("."), RSomeLazy(RHex)>>)),
                                 RCls({"p", "P"}), RSign, RSomeLazy(RDigit)>>),
                          RInf, RNan>>)>>)
       [] spec = "c" -> RAny
       [] spec = "s" -> RSomeLazy(RAny)
       [] spec = "p" -> RCat(<<RLit("0"), RLit("x"), RSomeLazy(RHex)>>)

\* widthWrap: the padding of a width stays outside the argument's group
WidthWrap(core, numeric, width, leftAlign, zeroPad) ==
  LET atLeastWidth == RLook(RAtLeast(RAny, width))
  IN IF width <= 0 THEN <<core>>
     ELSE IF leftAlign THEN <<atLeastWidth, core, RRep(RLit(" "), 0, Unbounded, TRUE)>>
     ELSE IF zeroPad /\ numeric
     THEN <<atLeastWidth, RRep(RLit("0"), 0, Unbounded, TRUE), core>>
     ELSE <<atLeastWidth, RRep(RLit(" "), 0, Unbounded, TRUE), core>>

\* namedArgPattern of argument number argCount, for the specifier at m
NamedArgPattern(f, m, argCount) ==
  LET flags == SpecFlags(f, m.start)
      leftAlign == "-" \in flags
      zeroPad == ~leftAlign /\ "0" \in flags
      altForm == "#" \in flags
      core == RGrp(argCount + 1, ArgCore(m.spec, SpecPrecision(f, m.start), altForm))
  IN WidthWrap(core, m.spec \notin {"c", "s", "p"}, SpecWidth(f, m.start), leftAlign, zeroPad)

\* the loop over the specifiers from number j on, and the trailing literal
RECURSIVE NamedFrom(_, _, _, _)
NamedFrom(f, matches, j, lastEnd) ==
  IF j > Len(matches) THEN <<QuoteMeta(SliceFrom(f, lastEnd))>>
  ELSE <<QuoteMeta(SubSeq(f, lastEnd + 1, matches[j].start - 1))>>
         \o NamedArgPattern(f, matches[j], j - 1)
         \o NamedFrom(f, matches, j + 1, matches[j].end)

RECURSIVE HSFrom(_, _, _, _)
HSFrom(f, matches, j, lastEnd) ==
  IF j > Len(matches) THEN <<QuoteMeta(SliceFrom(f, lastEnd))>>
  ELSE <<QuoteMeta(SubSeq(f, lastEnd + 1, matches[j].start - 1)), HSArgPattern(matches[j].spec)>>
         \o HSFrom(f, matches, j + 1, matches[j].end)

\* parsed.Regex
ParsedRegex(format) == RGrp(0, RCat(NamedFrom(format, FindSpecs(format, 1), 1, 0)))
\* parsed.HyperScanRegex
ParsedHyperScanRegex(format) == RCat(HSFrom(format, FindSpecs(format, 1), 1, 0))

\* pcre2.Compile(parsed.Regex + "$") and hs.NewPattern(parsed.HyperScanRegex + "$")
ConfirmPattern(format) == RCat(<<ParsedRegex(format), REol>>)
PrefilterPattern(format) == RCat(<<ParsedHyperScanRegex(format), REol>>)

(***************************************************************************)
(* Viewer.ProcessLine after the prefix strip (internal/view.go:273-416):   *)
(* scan, confirm and score, select, threshold, render; buildRefColumn.     *)
(***************************************************************************)
Letters ==
  {"a", "b", "c", "d", "e", "f", "g", "h", "i", "j", "k", "l", "m", "n", "o", "p", "q",
   "r", "s", "t", "u", "v", "w", "x", "y", "z",
   "A", "B", "C", "D", "E", "F", "G", "H", "I", "J", "K", "L", "M", "N", "O", "P", "Q",
   "R", "S", "T", "U", "V", "W", "X", "Y", "Z"}
\* regexp/syntax.IsWordChar
IsWordChar(c) == c \in Letters \cup Digits \cup {"_"}

\* number of word characters in s[from:to] (0-based, to exclusive)
WordCharsIn(s, from, to) == Cardinality({i \in (from + 1)..to : IsWordChar(s[i])})

RECURSIVE SumTo(_, _)
SumTo(f, n) == IF n = 0 THEN 0 ELSE f[n] + SumTo(f, n - 1)

DigitChar(d) ==
  CASE d = 0 -> "0" [] d = 1 -> "1" [] d = 2 -> "2" [] d = 3 -> "3" [] d = 4 -> "4"
    [] d = 5 -> "5" [] d = 6 -> "6" [] d = 7 -> "7" [] d = 8 -> "8" [] d = 9 -> "9"

\* strconv.Itoa
RECURSIVE Itoa(_)
Itoa(n) ==
  IF n < 0 THEN <<"-">> \o Itoa(0 - n)
  ELSE IF n < 10 THEN <<DigitChar(n)>>
  ELSE Itoa(n \div 10) \o <<DigitChar(n % 10)>>

\* v.getLogCallFromRef
getLogCallFromRef(ref) == corpus[ref.Project].Calls[ref.CallIndex + 1]

\* the visible text of the reference column (colour and hyperlink escapes
\* left out), the hyperlink target, and whether the slice expression panics
buildRefColumn(vc, file, refLine, link) ==
  LET width == vc.SourceColumnWidth
      room == width - Len(refColumnSeparator)
      localRes == file \o <<":">> \o Itoa(refLine)
  IN IF width = 0 THEN NoRefColumn
     ELSE IF file = <<>> /\ refLine = 0
     THEN [panic |-> FALSE, text |-> Spaces(room) \o refColumnSeparator, link |-> NoLink]
     ELSE IF Len(localRes) > room
     THEN IF room - 3 < 0
          THEN [panic |-> TRUE, text |-> <<>>, link |-> NoLink]
          ELSE [panic |-> FALSE,
                text |-> SliceTo(localRes, room - 3) \o <<".", ".", ".">> \o refColumnSeparator,
                link |-> link]
     ELSE [panic |-> FALSE,
           text |-> localRes \o Spaces(room - Len(localRes)) \o refColumnSeparator,
           link |-> link]

\* uint64(v.Config.MinMatchedRatio*float64(n)) with the ratio in tenths
RatioFloor(vc, n) == (vc.MinMatchedRatio * n) \div 10

MatchKey(id, from) == <<id, from>>

\* the match handler on one report (id, from, to) of the scan
matchHandler(vc, body, matches, id, from, to) ==
  LET key == MatchKey(id, from)
  IN IF to - from < vc.MinMatchChars \/ to - from < RatioFloor(vc, Len(body)) THEN matches
     ELSE IF key \in DOMAIN matches /\ matches[key].To > to THEN matches
     ELSE MapPut(matches, key,
                 [LcRef |-> compiledAllPatternIDToLogCallMap[id], From |-> from, To |-> to])

\* CompiledAllRegex.Scan: the patterns were compiled without a start-of-match
\* flag, so Hyperscan passes from = 0; it reports every end offset of every
\* enrolled pattern, in increasing order of the end offset
RECURSIVE ScanPattern(_, _, _, _, _)
ScanPattern(vc, body, matches, id, ends) ==
  IF ends = {} THEN matches
  ELSE LET to == CHOOSE e \in ends : \A x \in ends : e <= x
       IN ScanPattern(vc, body, matchHandler(vc, body, matches, id, 0, to), id, ends \ {to})

RECURSIVE ScanFrom(_, _, _, _)
ScanFrom(vc, body, matches, k) ==
  IF k > Len(hsPatterns) THEN matches
  ELSE LET pat == hsPatterns[k]
           format == getLogCallFromRef(pat.Ref).FormatString
       IN ScanFrom(vc, body,
                   ScanPattern(vc, body, matches, pat.Id,
                               ScanEnds(PrefilterPattern(format), body)),
                   k + 1)

Scan(vc, body) == ScanFrom(vc, body, <<>>, 1)

\* the confirm step on one candidate: regex.MatcherString(lineToMatch, 0)
Confirm(ref, body) == Search(ConfirmPattern(getLogCallFromRef(ref).FormatString), body)

\* the spans of the groups arg0, arg1, ... of a match, 0-based, end exclusive:
\* matcher.Named fails at the first name the pattern does not have
ArgSpans(m) ==
  [k \in 1..(Cardinality(DOMAIN m.caps) - 1) |->
     [from |-> m.caps[k].from - 1, to |-> m.caps[k].to - 1]]

\* (totalMatchedWordLiterals, totalMatchedLiterals, totalMatched) of a match
ScoreCountingArgWords(body, m) ==
  LET args == ArgSpans(m)
  IN [word |-> WordCharsIn(body, m.lo, m.hi),
      lit |-> (m.hi - m.lo) - SumTo([k \in DOMAIN args |-> args[k].to - args[k].from], Len(args)),
      total |-> m.hi - m.lo]
Score(body, m) ==
  LET args == ArgSpans(m)
  IN [word |-> WordCharsIn(body, m.lo, m.hi)
                 - SumTo([k \in DOMAIN args |-> WordCharsIn(body, args[k].from, args[k].to)],
                         Len(args)),
      lit |-> (m.hi - m.lo) - SumTo([k \in DOMAIN args |-> args[k].to - args[k].from], Len(args)),
      total |-> m.hi - m.lo]

\* the comparison that replaces the best candidate
BetterOrEqual(sc, best) ==
  \/ sc.word >= best.word
  \/ sc.word = best.word /\ sc.lit > best.lit
  \/ sc.word = best.word /\ sc.lit = best.lit /\ sc.total > best.total
Better(sc, best) ==
  \/ sc.word > best.word
  \/ sc.word = best.word /\ sc.lit > best.lit
  \/ sc.word = best.word /\ sc.lit = best.lit /\ sc.total > best.total

NoBest == [key |-> MatchKey(0, 0), word |-> 0, lit |-> 0, total |-> 0]

\* for key, match := range matches, in the order `order` of the keys
RECURSIVE SelectFrom(_, _, _, _, _)
SelectFrom(body, matches, order, j, best) ==
  IF j > Len(order) THEN best
  ELSE LET m == Confirm(matches[order[j]].LcRef, body)
           sc == Score(body, m)
       IN IF m.matches /\ Better(sc, best)
          THEN SelectFrom(body, matches, order, j + 1,
                          [key |-> order[j], word |-> sc.word, lit |-> sc.lit,
                           total |-> sc.total])
          ELSE SelectFrom(body, matches, order, j + 1, best)

\* the threshold test on the best candidate
ThresholdWithoutWords(vc, body, best) ==
  /\ best.lit >= vc.MinMatchChars
  /\ 10 * best.total >= vc.MinMatchedRatio * Len(body)
Threshold(vc, body, best) ==
  /\ best.lit >= vc.MinMatchChars
  /\ best.word >= vc.MinMatchWordChars
  /\ 10 * best.total >= vc.MinMatchedRatio * Len(body)

\* a byte of the line, or a byte of an annotation
Plain(s) == [k \in 1..Len(s) |-> [ann |-> FALSE, c |-> s[k]]]
Styled(s) == [k \in 1..Len(s) |-> [ann |-> TRUE, c |-> s[k]]]

\* strings.ReplaceAll(expr, "\n", "\\n")
RECURSIVE EscapeNewlines(_)
EscapeNewlines(expr) ==
  IF expr = <<>> THEN <<>>
  ELSE (IF Head(expr) = "\n" THEN <<"\\", "n">> ELSE <<Head(expr)>>)
         \o EscapeNewlines(Tail(expr))

\* the rendering loop from argument number i on (view.go:389-405)
RECURSIVE RenderArgs(_, _, _, _, _)
RenderArgs(body, args, exprs, i, prevEnd) ==
  IF i > Len(args)
  THEN [panic |-> FALSE, out |-> Plain(SliceFrom(body, prevEnd))]
  ELSE IF \/ args[i].from < 0
          \/ args[i].from < prevEnd
          \/ args[i].to >= Len(body) + 1
          \/ i > Len(exprs)
  THEN [panic |-> TRUE, out |-> <<>>]
  ELSE LET rest == RenderArgs(body, args, exprs, i + 1, args[i].to)
       IN [panic |-> rest.panic,
           out |-> Plain(SubSeq(body, prevEnd + 1, args[i].from))
                     \o Styled(<<"|">> \o EscapeNewlines(exprs[i]) \o <<"|">>)
                     \o Plain(SubSeq(body, args[i].from + 1, args[i].to))
                     \o rest.out]

\* the orders in which `range matches` can produce the keys of the map
Orders(S) ==
  {o \in [1..Cardinality(S) -> S] : \A i, j \in 1..Cardinality(S) : o[i] = o[j] => i = j}

\* refLink: definition.LinkTemplate with {file} and {line} substituted
RefLink(logCall) ==
  [template |-> definitionIDToDefinitionMap[logCall.DefinitionID].LinkTemplate,
   file |-> logCall.File, line |-> logCall.Line]

\* the result of ProcessLine from line 273 on
LineResult(panic, best, pass, rendered, column) ==
  [panic |-> panic, best |-> best, isMatch |-> pass, processedMatched |-> rendered,
   refColumn |-> column]

\* lines 378-415 for a line that passed the threshold test: m is the match
\* of the confirm pattern of logCall
RenderMatched(vc, body, best, logCall, m) ==
  LET r == RenderArgs(body, ArgSpans(m), logCall.ArgumentExprs, 1, m.lo)
      column == buildRefColumn(vc, logCall.File, logCall.Line, RefLink(logCall))
  IN IF vc.SkipPrintArgumentExpr
     THEN LineResult(column.panic, best, TRUE, Plain(body), column)
     ELSE IF r.panic THEN LineResult(TRUE, best, TRUE, <<>>, NoRefColumn)
     ELSE LineResult(column.panic, best, TRUE, Plain(SliceTo(body, m.lo)) \o r.out, column)

\* lines 363-415 for the best candidate of the loop
AfterSelection(vc, body, ms, best) ==
  IF best.total # 0 /\ Threshold(vc, body, best)
  THEN RenderMatched(vc, body, best, getLogCallFromRef(ms[best.key].LcRef),
                     Confirm(ms[best.key].LcRef, body))
  ELSE LineResult(FALSE, best, FALSE, Plain(body), buildRefColumn(vc, <<>>, 0, NoLink))

\* ProcessLine from line 273 on, for the body and the candidates of the scan
\* and one order of the map iteration
ProcessBody(vc, body, ms, order) ==
  AfterSelection(vc, body, ms, SelectFrom(body, ms, order, 1, NoBest))

ViewerClearingConfirmMap ==
  /\ compiledRegex' = {}
  /\ UNCHANGED <<cfg, corpus, loopVarPerIteration, nvPc, nvTodo, nvProject, nvCall, hsPatterns,
                 compiledAllPatternIDToLogCallMap, definitionIDToDefinitionMap>>
\* ProcessLine only reads v.Config, v.Corpus, v.CompiledRegex, v.CompiledAllRegex,
\* v.CompiledAllPatternIDToLogCallMap and v.DefinitionIDToDefinitionMap
ViewerUntouched == UNCHANGED <<cfg, nvVars>>

\* Viewer.ProcessLine(l) on the constructed Viewer; the Viewer is not modified
ProcessLine(l) ==
  /\ nvPc = "ok"
  /\ vpc \in {"idle", "done"}
  /\ LET s == StripPrefix(cfg, l)
         ms == Scan(cfg, s.lineToMatch)
     IN /\ line' = l
        /\ startPos' = s.startPos
        /\ prefix' = s.prefix
        /\ lineToMatch' = s.lineToMatch
        /\ prevOutput' = IF vpc = "done" /\ line = l
                         THEN [valid |-> TRUE, panic |-> FALSE, out |-> plOutput]
                         ELSE NoRun
        /\ IF s.panic
           THEN /\ vpc' = "panic"
                /\ UNCHANGED <<hsMatches, bestMatched, isMatch, processedMatched, refColumn,
                               plOutput>>
           ELSE \E order \in Orders(DOMAIN ms) :
                  LET r == ProcessBody(cfg, s.lineToMatch, ms, order)
                  IN /\ vpc' = IF r.panic THEN "panic" ELSE "done"
                     /\ hsMatches' = ms
                     /\ bestMatched' = r.best
                     /\ isMatch' = r.isMatch
                     /\ processedMatched' = r.processedMatched
                     /\ refColumn' = r.refColumn
                     /\ plOutput' = IF r.panic THEN <<>>
                                    ELSE Plain(r.refColumn.text) \o Plain(s.prefix)
                                           \o r.processedMatched
  /\ ViewerUntouched
  /\ UNCHANGED <<pipeVars, roundTrip, reports, auxVars>>

\* bounded engines and lines for ProcessLine
MaxBodyLen == 3
BodyChars == {"a", "=", "1"}
FormatAssign == <<"a", "=", "%", "d">>
FormatSeed == <<"f", "d", "=", "%", "d", " ", "b", "y", "t", "e", "s", "=", "%", "d">>
FormatTail == <<"a", "b", "c">>
FormatWide == <<"v", "=", "%", "d", " ", "%", "s">>
SeedLine == <<"f", "d", "=", "7", " ", "b", "y", "t", "e", "s", "=", "1", "0", "2", "4">>
TailLine == <<"v", "=", "1", " ", "a", "b", "c">>
PrefixedLine == <<"1", " ", "a", "=", "1">>
HexLine == <<"=", "0", "x", "1">>
MatchLines == SeqsUpTo(BodyChars, MaxBodyLen) \cup {SeedLine, TailLine, PrefixedLine, HexLine}

Call(file, n, format, exprs) ==
  [DefinitionID |-> "d1", FormatString |-> format, ArgumentExprs |-> exprs,
   File |-> file, Line |-> n]
FileA == <<"a", ".", "c">>
FileB == <<"b", ".", "c">>
MatchCallLists ==
  {<<Call(FileA, 10, FormatAssign, <<<<"x">>>>)>>,
   <<Call(FileA, 10, FormatAssign, <<<<"x">>>>), Call(FileB, 7, FormatAssign, <<<<"y">>>>)>>,
   <<Call(FileA, 10, <<"a">>, <<>>), Call(FileB, 7, FormatAssign, <<<<"x", "\n", "y">>>>)>>,
   <<Call(FileA, 10, FormatAssign, <<>>)>>,
   <<Call(FileA, 10, FormatSeed, <<<<"f", "d">>, <<"n">>>>)>>,
   <<Call(FileA, 10, FormatTail, <<>>), Call(FileB, 7, FormatWide, <<<<"n">>, <<"s">>>>)>>,
   <<Call(<<>>, 0, <<"%", "s">>, <<<<"s">>>>), Call(FileB, 7, <<"%", ".", "0", "s">>, <<<<"s">>>>)>>,
   <<Call(FileA, 10, <<"=", "%", "#", "x">>, <<<<"n">>>>)>>,
   <<Call(FileA, 10, <<>>, <<>>), Call(FileB, 7, FormatAssign, <<<<"y">>>>)>>}
MatchCorpora ==
  {[n \in {"p"} |->
      [Definitions |-> <<[ID |-> "d1", Syntax |-> "printflike", LinkTemplate |-> "l1"]>>,
       Calls |-> cs]] : cs \in MatchCallLists}

LenientConfig ==
  [DefaultConfig EXCEPT !.MinMatchChars = 1, !.MinMatchWordChars = 1, !.SourceColumnWidth = 12]
MatchConfigs ==
  {LenientConfig,
   [LenientConfig EXCEPT !.SkipPrintArgumentExpr = TRUE],
   [LenientConfig EXCEPT !.StartCharPos = <<" ", "1">>],
   [LenientConfig EXCEPT !.StartCharPos = <<" ", "1">>, !.SkipPrintArgumentExpr = TRUE],
   [LenientConfig EXCEPT !.MinMatchChars = 2, !.MinMatchedRatio = 9],
   [LenientConfig EXCEPT !.MinMatchWordChars = 3],
   [LenientConfig EXCEPT !.SourceColumnWidth = 0],
   [LenientConfig EXCEPT !.SourceColumnWidth = 4],
   [DefaultConfig EXCEPT !.SourceColumnWidth = 12]}

\* the input: any line, then the same line again
NextLines == IF vpc = "idle" THEN MatchLines ELSE {line}

\* Run: the configuration passed Validate, NewViewer starts; ProcessLine runs
\* on the Viewer that NewViewer returns
InitMatch ==
  /\ cfg \in MatchConfigs
  /\ PipelineStart(<<>>)
  /\ LineIdle
  /\ corpus \in MatchCorpora
  /\ loopVarPerIteration \in BOOLEAN
  /\ nvPc = "projects"
  /\ nvTodo = DOMAIN corpus
  /\ nvProject = ""
  /\ nvCall = 0
  /\ compiledRegex = {}
  /\ hsPatterns = <<>>
  /\ compiledAllPatternIDToLogCallMap = <<>>
  /\ definitionIDToDefinitionMap = <<>>

NextMatch ==
  \/ NewViewerNextProject
  \/ NewViewerCall
  \/ NewViewerDefinitions
  \/ NewViewerBuild
  \/ \E l \in NextLines : ProcessLine(l)

SpecMatch == InitMatch /\ [][NextMatch]_vars

(***************************************************************************)
(* Properties of ProcessLine.                                              *)
(***************************************************************************)
\* ProcessLine has run on `line` and has passed the prefix strip
Scanned == vpc \in {"done", "panic"} /\ ~StripPrefix(cfg, line).panic

\* the candidates of the last run that the confirm pattern accepts
ConfirmedKeys == {key \in DOMAIN hsMatches : Confirm(hsMatches[key].LcRef, lineToMatch).matches}
ScoreOf(key) == Score(lineToMatch, Confirm(hsMatches[key].LcRef, lineToMatch))

\* lexicographic order on (total_word_literals, total_literals, total)
LexGreater(a, b) ==
  \/ a.word > b.word
  \/ a.word = b.word /\ a.lit > b.lit
  \/ a.word = b.word /\ a.lit = b.lit /\ a.total > b.total

\* C12: whatever the order in which the candidates are visited, no confirmed
\* candidate has a triple (total_word_literals, total_literals, total)
\* strictly greater than that of the selected winner, and a selected winner
\* is a confirmed candidate that has the selected triple.
C12_WinnerIsGreatest ==
  Scanned =>
    /\ \A key \in ConfirmedKeys : ~LexGreater(ScoreOf(key), bestMatched)
    /\ bestMatched.total # 0 =>
         /\ bestMatched.key \in ConfirmedKeys
         /\ ScoreOf(bestMatched.key) =
              [word |-> bestMatched.word, lit |-> bestMatched.lit, total |-> bestMatched.total]

\* two confirmed candidates with different triples; the greater one won
C12_Witness ==
  /\ vpc = "done"
  /\ \E k1, k2 \in ConfirmedKeys :
       /\ LexGreater(ScoreOf(k1), ScoreOf(k2))
       /\ ScoreOf(k2).total > 0
       /\ bestMatched.key = k1

\* C13: among candidates with identical triples the tie is resolved
\* deterministically: two runs of ProcessLine on the same line against the
\* same engine return the same output (the same call site is selected).
C13_TieDeterministic ==
  (vpc = "done" /\ prevOutput.valid) => plOutput = prevOutput.out

\* the thresholds of the configuration, on a triple and a body length
MeetsThresholds(sc, n) ==
  /\ sc.lit >= cfg.MinMatchChars
  /\ sc.word >= cfg.MinMatchWordChars
  /\ 10 * sc.total >= cfg.MinMatchedRatio * n

\* what ProcessLine prints for a line without a match
RenderedUnmatched ==
  /\ processedMatched = Plain(lineToMatch)
  /\ refColumn = buildRefColumn(cfg, <<>>, 0, NoLink)

\* C14: a line is rendered as matched only if the winner satisfies all
\* three thresholds (total_literals >= min_match_chars, total_word_literals
\* >= min_match_word_chars, total >= min_matched_ratio * len(body)); if the
\* winner fails any of them the line is emitted unmatched, whatever the
\* other candidates would satisfy.
C14_ThresholdGate ==
  Scanned =>
    /\ isMatch => bestMatched.total # 0 /\ MeetsThresholds(bestMatched, Len(lineToMatch))
    /\ ~MeetsThresholds(bestMatched, Len(lineToMatch)) => ~isMatch /\ RenderedUnmatched

\* the winner fails a threshold, another confirmed candidate meets all three,
\* and the line is printed unmatched
C14_Witness ==
  /\ vpc = "done"
  /\ bestMatched.total # 0
  /\ ~isMatch
  /\ RenderedUnmatched
  /\ \E key \in ConfirmedKeys : MeetsThresholds(ScoreOf(key), Len(lineToMatch))

\* the triple of a match, counted byte by byte: a byte of the span [lo, hi)
\* is a literal byte when no argument capture contains it
InArgument(m, i) == \E k \in 1..Len(ArgSpans(m)) : ArgSpans(m)[k].from <= i /\ i < ArgSpans(m)[k].to
ExpectedScore(body, m) ==
  [word |-> Cardinality({i \in m.lo..(m.hi - 1) : IsWordChar(body[i + 1]) /\ ~InArgument(m, i)}),
   lit |-> Cardinality({i \in m.lo..(m.hi - 1) : ~InArgument(m, i)}),
   total |-> m.hi - m.lo]

SeedEngine == corpus["p"].Calls[1].FormatString = FormatSeed

\* C15: for a confirmed candidate with outer span [lo, hi), total = hi - lo,
\* total_literals = total minus the lengths of the argument captures, and
\* total_word_literals = the word characters of [lo, hi) minus those inside
\* the captures; "fd=%d bytes=%d" on `fd=7 bytes=1024` scores total 15,
\* total_literals 10, total_word_literals 7, a match under the default
\* thresholds (4, 3, 0.3).
C15_Scoring ==
  Scanned =>
    /\ \A key \in ConfirmedKeys :
         ScoreOf(key) = ExpectedScore(lineToMatch, Confirm(hsMatches[key].LcRef, lineToMatch))
    /\ bestMatched.total # 0 =>
         [word |-> bestMatched.word, lit |-> bestMatched.lit, total |-> bestMatched.total]
           = ExpectedScore(lineToMatch, Confirm(hsMatches[bestMatched.key].LcRef, lineToMatch))
    /\ (SeedEngine /\ line = SeedLine /\ lineToMatch = SeedLine) =>
         /\ bestMatched.total = 15 /\ bestMatched.lit = 10 /\ bestMatched.word = 7
         /\ (cfg.MinMatchChars = 4 /\ cfg.MinMatchWordChars = 3 /\ cfg.MinMatchedRatio = 3)
              => isMatch

\* the seed line was processed under the default thresholds and matched
C15_Witness ==
  /\ vpc = "done"
  /\ SeedEngine /\ line = SeedLine /\ lineToMatch = SeedLine
  /\ cfg.MinMatchChars = 4 /\ cfg.MinMatchWordChars = 3 /\ cfg.MinMatchedRatio = 3
  /\ isMatch
  /\ bestMatched.word = 7

\* the winner of the last run and its match
Winner == getLogCallFromRef(hsMatches[bestMatched.key].LcRef)
WinnerMatch == Confirm(hsMatches[bestMatched.key].LcRef, lineToMatch)

\* the annotations |expr| of the arguments k, k+1, ... whose capture starts
\* at offset p
RECURSIVE AnnotationsAt(_, _, _, _)
AnnotationsAt(args, exprs, p, k) ==
  IF k > Len(args) THEN <<>>
  ELSE (IF args[k].from = p
        THEN Styled(<<"|">> \o EscapeNewlines(exprs[k]) \o <<"|">>)
        ELSE <<>>) \o AnnotationsAt(args, exprs, p, k + 1)

\* the bytes of the body from index i on, one annotation before each capture
RECURSIVE Decorated(_, _, _, _)
Decorated(body, args, exprs, i) ==
  IF i > Len(body) THEN AnnotationsAt(args, exprs, Len(body), 1)
  ELSE AnnotationsAt(args, exprs, i - 1, 1) \o Plain(<<body[i]>>)
         \o Decorated(body, args, exprs, i + 1)

Unstyled(out) == SelectSeq(out, LAMBDA x : ~x.ann)

\* C16: for a matched line with skip_print_argument_expr = false the
\* decorated body is the bytes of the body in their order with the
\* annotation |argument_exprs[k]| immediately before the matched substring of
\* argument k, for each captured argument k in increasing order; without the
\* annotations it is the original body.
C16_Decoration ==
  (Scanned /\ isMatch /\ ~cfg.SkipPrintArgumentExpr) =>
    /\ Len(ArgSpans(WinnerMatch)) <= Len(Winner.ArgumentExprs)
    /\ processedMatched = Decorated(lineToMatch, ArgSpans(WinnerMatch), Winner.ArgumentExprs, 1)
    /\ Unstyled(processedMatched) = Plain(lineToMatch)

\* C17: with skip_print_argument_expr = true, for every line, matched or
\* not, ProcessLine returns refColumn + prefix + body where the body part is
\* the original body after the prefix strip.
C17_SkipKeepsBody ==
  (vpc \in {"done", "panic"} /\ cfg.SkipPrintArgumentExpr) =>
    /\ vpc = "done"
    /\ processedMatched = Plain(lineToMatch)
    /\ plOutput = Plain(refColumn.text) \o Plain(prefix) \o Plain(lineToMatch)

(***************************************************************************)
(* buildRefColumn on its own: every width, with and without a reference.   *)
(***************************************************************************)
MaxWidth == 12
RefColumnConfigs == {[DefaultConfig EXCEPT !.SourceColumnWidth = w] : w \in 0..MaxWidth}
RefFiles == {<<>>, <<"a", ".", "c">>, <<"m", "a", "i", "n", ".", "c">>}
RefLines == {0, 7, 10, 123}

InitRefColumn ==
  /\ cfg \in RefColumnConfigs
  /\ PipelineStart(<<>>)
  /\ LineIdle
  /\ ViewerIdle

\* v.buildRefColumn(file, n, link) as ProcessLine calls it at line 413
BuildRefColumn(file, n) ==
  /\ vpc = "idle"
  /\ refColumn' = buildRefColumn(cfg, file, n,
                                 IF file = <<>> /\ n = 0 THEN NoLink
                                 ELSE [template |-> "l1", file |-> file, line |-> n])
  /\ vpc' = IF refColumn'.panic THEN "panic" ELSE "built"
  /\ UNCHANGED <<cfg, pipeVars, nvVars, line, startPos, prefix, lineToMatch, hsMatches,
                 bestMatched, isMatch, processedMatched, plOutput, prevOutput, roundTrip,
                 reports, auxVars>>

NextRefColumn == \E file \in RefFiles, n \in RefLines : BuildRefColumn(file, n)

SpecRefColumn == InitRefColumn /\ [][NextRefColumn]_vars

\* C18: for every accepted ViewConfig and every line, building the reference
\* column never fails and its visible text has length exactly
\* source_column_width (0 when the width is 0), also for the widths 1..5 and
\* for file:line texts longer than the width minus 3.
C18_RefColumnWidth ==
  (vpc \in {"built", "panic"} /\ Validate(cfg) = "ok") =>
    /\ ~refColumn.panic
    /\ Len(refColumn.text) = cfg.SourceColumnWidth

(***************************************************************************)
(* The two patterns of one call site against each other.                   *)
(***************************************************************************)
FormatOf(ref) == getLogCallFromRef(ref).FormatString

\* C19: prefilter dominance: for every enrolled call site and every body its
\* confirm pattern accepts, its prefilter pattern matches that body too, so
\* that the scan reports at least one candidate with the id of the call site.
C19_PrefilterDominance ==
  Scanned =>
    \A k \in 1..Len(hsPatterns) :
      Confirm(hsPatterns[k].Ref, lineToMatch).matches =>
        ScanEnds(PrefilterPattern(FormatOf(hsPatterns[k].Ref)), lineToMatch) # {}

(***************************************************************************)
(* Format round trip: the text printf produces for one specifier and one   *)
(* value, against the confirm pattern ParsePrintfFormat builds for it.     *)
(* Printf follows the padding and precision rules the comments of          *)
(* internal/parse.go state for %s and %d.                                  *)
(***************************************************************************)
MaxValueLen == 2
ValueChars == {"a", "1", " "}
StringValues == SeqsUpTo(ValueChars, MaxValueLen)
IntValues == {-42, -7, -1, 0, 5, 7, 42, 123}

Conv(flags, width, precision, conv) ==
  [flags |-> flags, width |-> width, precision |-> precision, conv |-> conv]

StringSpecs ==
  {Conv({}, 0, -1, "s"), Conv({}, 2, -1, "s"), Conv({"-"}, 2, -1, "s"),
   Conv({}, 3, -1, "s"), Conv({}, 0, 1, "s"), Conv({}, 0, 0, "s"),
   Conv({"-"}, 3, -1, "s")}
IntSpecs ==
  {Conv({}, 0, -1, "d"), Conv({}, 3, -1, "d"), Conv({"-"}, 3, -1, "d"),
   Conv({"0"}, 3, -1, "d"), Conv({"+"}, 0, -1, "d"), Conv({}, 0, 2, "d"),
   Conv({}, 5, -1, "d")}

\* the specifier as it is written after the % sign
SpecText(s) ==
  (IF "-" \in s.flags THEN <<"-">> ELSE <<>>)
    \o (IF "+" \in s.flags THEN <<"+">> ELSE <<>>)
    \o (IF "0" \in s.flags THEN <<"0">> ELSE <<>>)
    \o (IF s.width > 0 THEN Itoa(s.width) ELSE <<>>)
    \o (IF s.precision >= 0 THEN <<".">> \o Itoa(s.precision) ELSE <<>>)
    \o <<s.conv>>

Zeros(n) == [i \in 1..n |-> "0"]

\* %d: sign, at least `precision` digits, padded to the width
PrintfInt(s, v) ==
  LET abs == IF v < 0 THEN 0 - v ELSE v
      digits == IF v = 0 /\ s.precision = 0 THEN <<>>
                ELSE Zeros(s.precision - Len(Itoa(abs))) \o Itoa(abs)
      sign == IF v < 0 THEN <<"-">> ELSE IF "+" \in s.flags THEN <<"+">> ELSE <<>>
      pad == s.width - Len(sign) - Len(digits)
  IN IF "-" \in s.flags THEN sign \o digits \o Spaces(pad)
     ELSE IF "0" \in s.flags /\ s.precision < 0 THEN sign \o Zeros(pad) \o digits
     ELSE Spaces(pad) \o sign \o digits

\* %s: at most `precision` characters, padded with spaces to the width
PrintfString(s, v) ==
  LET shown == IF s.precision >= 0 /\ s.precision < Len(v) THEN SliceTo(v, s.precision) ELSE v
  IN IF "-" \in s.flags THEN shown \o Spaces(s.width - Len(shown))
     ELSE Spaces(s.width - Len(shown)) \o shown

Printf(s, v) == IF s.conv = "d" THEN PrintfInt(s, v) ELSE PrintfString(s, v)

\* the confirm pattern of "%" + s on the text t
Accept(format, t) ==
  LET m == Search(ConfirmPattern(format), t)
  IN [valid |-> TRUE, format |-> format, text |-> t, accepted |-> m.matches,
      span |-> IF m.matches THEN ArgSpans(m)[1] ELSE NoSpan]

RoundTrip(s, v) ==
  /\ ~roundTrip.valid
  /\ roundTrip' = Accept(<<"%">> \o SpecText(s), Printf(s, v))
  /\ UNCHANGED <<cfg, pipeVars, nvVars, vpc, line, startPos, prefix, lineToMatch, hsMatches,
                 bestMatched, isMatch, processedMatched, refColumn, plOutput, prevOutput,
                 reports, auxVars>>

InitRoundTrip ==
  /\ cfg = DefaultConfig
  /\ PipelineStart(<<>>)
  /\ LineIdle
  /\ ViewerIdle

NextRoundTrip ==
  \/ \E s \in StringSpecs, v \in StringValues : RoundTrip(s, v)
  \/ \E s \in IntSpecs, v \in IntValues : RoundTrip(s, v)

SpecRoundTrip == InitRoundTrip /\ [][NextRoundTrip]_vars

\* C20: format round trip: for every supported specifier s, with flags, width
\* and precision, and every value that printf formats to t under "%" + s, the
\* confirm pattern of "%" + s accepts t and the argument group captures the
\* whole of t.
C20_FormatRoundTrip ==
  roundTrip.valid =>
    /\ roundTrip.accepted
    /\ roundTrip.span = [from |-> 0, to |-> Len(roundTrip.text)]

(***************************************************************************)
(* The match handler of ProcessLine on its own (internal/view.go:286-306): *)
(* the prefix strip, then any reports (id, from, to) of the scan, one      *)
(* handler call each.                                                      *)
(***************************************************************************)
MaxReports == 2
LongBody == [i \in 1..15 |-> "a"]
HandlerLines == {<<"a", "a", "a", "a", "a">>, LongBody}
HandlerConfigs ==
  {LenientConfig, DefaultConfig, [DefaultConfig EXCEPT !.MinMatchedRatio = 0]}
ReportFroms == {0, 1}
ReportTos == {3, 4, 5}

InitHandler ==
  /\ cfg \in HandlerConfigs
  /\ PipelineStart(<<>>)
  /\ LineIdle
  /\ corpus = [n \in {"p"} |->
                 [Definitions |-> <<[ID |-> "d1", Syntax |-> "printflike",
                                     LinkTemplate |-> "l1"]>>,
                  Calls |-> <<Call(FileA, 10, FormatAssign, <<<<"x">>>>),
                              Call(FileB, 7, FormatTail, <<>>)>>]]
  /\ loopVarPerIteration = TRUE
  /\ nvPc = "projects"
  /\ nvTodo = DOMAIN corpus
  /\ nvProject = ""
  /\ nvCall = 0
  /\ compiledRegex = {}
  /\ hsPatterns = <<>>
  /\ compiledAllPatternIDToLogCallMap = <<>>
  /\ definitionIDToDefinitionMap = <<>>

\* ProcessLine up to the call of Scan: the prefix strip and the empty map
BeginScan(l) ==
  /\ nvPc = "ok"
  /\ vpc = "idle"
  /\ ~StripPrefix(cfg, l).panic
  /\ line' = l
  /\ startPos' = StripPrefix(cfg, l).startPos
  /\ prefix' = StripPrefix(cfg, l).prefix
  /\ lineToMatch' = StripPrefix(cfg, l).lineToMatch
  /\ vpc' = "scan"
  /\ hsMatches' = <<>>
  /\ reports' = <<>>
  /\ UNCHANGED <<cfg, pipeVars, nvVars, bestMatched, isMatch, processedMatched, refColumn,
                 plOutput, prevOutput, roundTrip, auxVars>>

\* one call of the handler by the scanner
OnMatch(id, from, to) ==
  /\ vpc = "scan"
  /\ Len(reports) < MaxReports
  /\ id \in DOMAIN compiledAllPatternIDToLogCallMap
  /\ from <= to
  /\ to <= Len(lineToMatch)
  /\ hsMatches' = matchHandler(cfg, lineToMatch, hsMatches, id, from, to)
  /\ reports' = Append(reports, [id |-> id, from |-> from, to |-> to])
  /\ UNCHANGED <<cfg, pipeVars, nvVars, vpc, line, startPos, prefix, lineToMatch, bestMatched,
                 isMatch, processedMatched, refColumn, plOutput, prevOutput, roundTrip,
                 auxVars>>

NextHandler ==
  \/ NewViewerNextProject
  \/ NewViewerCall
  \/ NewViewerDefinitions
  \/ NewViewerBuild
  \/ \E l \in HandlerLines : BeginScan(l)
  \/ \E id \in 1..2, from \in ReportFroms, to \in ReportTos : OnMatch(id, from, to)

SpecHandler == InitHandler /\ [][NextHandler]_vars

\* the reports of this scan for one key that pass the two floors as the
\* handler computes them
Eligible(key) ==
  {k \in 1..Len(reports) :
     /\ MatchKey(reports[k].id, reports[k].from) = key
     /\ reports[k].to - reports[k].from >= cfg.MinMatchChars
     /\ reports[k].to - reports[k].from >= RatioFloor(cfg, Len(lineToMatch))}

\* C21: when several reports arrive for the same (id, from) key, the map
\* retains the report with the shortest `to`; a later report with a larger
\* `to` never replaces it.
C21_KeepsShortestTo ==
  vpc = "scan" =>
    \A key \in DOMAIN hsMatches :
      \A k \in Eligible(key) : hsMatches[key].To <= reports[k].to

\* the two floors with the ratio floor compared as a real number
\* (min_matched_ratio is held in tenths)
MeetsFloors(r) ==
  /\ r.to - r.from >= cfg.MinMatchChars
  /\ 10 * (r.to - r.from) >= cfg.MinMatchedRatio * Len(lineToMatch)

\* C26: a report (id, from, to) is kept as a candidate exactly when
\* to - from >= min_match_chars and to - from >= min_matched_ratio * len(body),
\* the ratio floor compared as a real number (a span of 4 against a floor of
\* 0.3 * 15 = 4.5 is dropped); every other report is dropped.
C26_FloorsExact ==
  vpc = "scan" =>
    \A id \in 1..2, from \in ReportFroms :
      MatchKey(id, from) \in DOMAIN hsMatches
        <=> \E k \in 1..Len(reports) :
              /\ MatchKey(reports[k].id, reports[k].from) = MatchKey(id, from)
              /\ MeetsFloors(reports[k])

(***************************************************************************)
(* buildOrLoadCachedHSPatternsDB (internal/view.go:92-129) in several      *)
(* engine constructions with the same pattern set, hence the same cache    *)
(* path.  The serialized database is SerializedChunks chunks long;         *)
(* os.WriteFile opens the file with O_CREATE|O_TRUNC and then writes, each *)
(* write call appending at the writer's own offset.                        *)
(***************************************************************************)
NumEngines == 2
SerializedChunks == 3
Engines == 1..NumEngines

CompleteFile == [exists |-> TRUE, data |-> [k \in 1..SerializedChunks |-> "chunk"]]
Complete(f) == f.exists /\ f.data = CompleteFile.data

At(pc, off) == [pc |-> pc, off |-> off]

\* the cache directory exists; the file is absent, or complete from an earlier run
InitCache ==
  /\ cfg = DefaultConfig
  /\ PipelineStart(<<>>)
  /\ vpc = "idle"
  /\ line = <<>>
  /\ startPos = 0
  /\ prefix = <<>>
  /\ lineToMatch = <<>>
  /\ MatchIdle
  /\ ViewerIdle
  /\ cacheFile \in {NoFile, CompleteFile}
  /\ cacheProc = [e \in Engines |-> At("stat", 0)]
  /\ pushCalls = <<>>

CacheUnchanged ==
  UNCHANGED <<cfg, pipeVars, nvVars, vpc, line, startPos, prefix, lineToMatch, hsMatches,
              bestMatched, isMatch, processedMatched, refColumn, plOutput, prevOutput,
              roundTrip, reports, pushCalls>>

\* os.Stat(cachePath): miss or hit
CacheStat(e) ==
  /\ cacheProc[e].pc = "stat"
  /\ cacheProc' = [cacheProc EXCEPT ![e] = At(IF cacheFile.exists THEN "read" ELSE "build", 0)]
  /\ UNCHANGED cacheFile
  /\ CacheUnchanged

\* hs.NewBlockDatabase and db.Marshal: either may fail
CacheBuild(e) ==
  /\ cacheProc[e].pc = "build"
  /\ \E ok \in BOOLEAN :
       cacheProc' = [cacheProc EXCEPT ![e] = At(IF ok THEN "open" ELSE "error", 0)]
  /\ UNCHANGED cacheFile
  /\ CacheUnchanged

\* os.WriteFile, the open: the file is created or truncated
CacheOpen(e) ==
  /\ cacheProc[e].pc = "open"
  /\ cacheFile' = [exists |-> TRUE, data |-> <<>>]
  /\ cacheProc' = [cacheProc EXCEPT ![e] = At("write", 0)]
  /\ CacheUnchanged

\* the chunks the file holds after a write of one chunk at offset off; the
\* bytes between the end of a truncated file and the offset read as zeros
WriteAt(data, off) ==
  [k \in 1..(IF Len(data) > off + 1 THEN Len(data) ELSE off + 1) |->
     IF k = off + 1 THEN "chunk"
     ELSE IF k <= Len(data) THEN data[k]
     ELSE "zeros"]

\* os.WriteFile, one write of the loop; after the last one the function returns db
CacheWrite(e) ==
  /\ cacheProc[e].pc = "write"
  /\ cacheFile' = [cacheFile EXCEPT !.data = WriteAt(@, cacheProc[e].off)]
  /\ cacheProc' = [cacheProc EXCEPT ![e] =
                     IF cacheProc[e].off + 1 = SerializedChunks THEN At("built", 0)
                     ELSE At("write", cacheProc[e].off + 1)]
  /\ CacheUnchanged

\* os.ReadFile and hs.UnmarshalBlockDatabase on what the file holds now
CacheRead(e) ==
  /\ cacheProc[e].pc = "read"
  /\ cacheProc' = [cacheProc EXCEPT ![e] =
                     At(IF Complete(cacheFile) THEN "loaded" ELSE "load_failed", 0)]
  /\ UNCHANGED cacheFile
  /\ CacheUnchanged

NextCache ==
  \E e \in Engines :
    \/ CacheStat(e)
    \/ CacheBuild(e)
    \/ CacheOpen(e)
    \/ CacheWrite(e)
    \/ CacheRead(e)

SpecCache == InitCache /\ [][NextCache]_vars

\* C22: the serialized database is placed into the cache directory
\* atomically: an engine construction that finds the cache file present never
\* reads a partially written entry and never fails to deserialise it.
C22_AtomicCachePlacement ==
  \A e \in Engines : cacheProc[e].pc # "load_failed"

(***************************************************************************)
(* Failures of ProcessLine in the pipeline.                                *)
(***************************************************************************)
\* processing the line a worker holds fails
FailsOn(w) == wItem[w] # NoItem /\ ProcessLineNoMatch(cfg, wItem[w].Content).panic

\* C23: when processing line n fails, the worker publishes "Line <n>: <error>"
\* under that line's sequence number and goes on: the failure does not halt
\* the pipeline.
C23_FailurePublished ==
  \A w \in Workers :
    /\ pcW[w] # "panicked"
    /\ (pcW[w] = "cpush_lock" /\ FailsOn(w)) => wProcessed[w] = <<"Line", wItem[w].Line>>

(***************************************************************************)
(* Properties of the Viewer that NewViewer returns.                        *)
(***************************************************************************)
\* C24: after NewViewer succeeds with n enrolled prefilter patterns, the ids
\* are exactly 1..n in enrollment order, each id maps to exactly one CallRef,
\* no two ids map to the same CallRef, and every mapped CallRef has a confirm
\* regex.
C24_DenseIds ==
  nvPc = "ok" =>
    /\ \A k \in 1..Len(hsPatterns) : hsPatterns[k].Id = k
    /\ DOMAIN compiledAllPatternIDToLogCallMap = 1..Len(hsPatterns)
    /\ \A k \in 1..Len(hsPatterns) :
         compiledAllPatternIDToLogCallMap[k] = hsPatterns[k].Ref
    /\ \A j, k \in 1..Len(hsPatterns) :
         hsPatterns[j].Ref = hsPatterns[k].Ref => j = k
    /\ \A k \in 1..Len(hsPatterns) : hsPatterns[k].Ref \in compiledRegex

\* two projects have enrolled patterns
C24_Witness ==
  /\ nvPc = "ok"
  /\ Len(hsPatterns) >= 3
  /\ \E j, k \in 1..Len(hsPatterns) : hsPatterns[j].Ref.Project # hsPatterns[k].Ref.Project

\* the prefilter pattern of a call site matches the empty string
ZeroWidth(ref) == ScanEnds(ParsedHyperScanRegex(FormatOf(ref)), <<>>) # {}
EnrolledRefs == {hsPatterns[k].Ref : k \in 1..Len(hsPatterns)}

\* C25: a call site whose prefilter pattern has zero minimum width is not
\* enrolled and has no id, its confirm regex stays in the confirm map, it is
\* never a candidate or the winner for any line, and the ids of the enrolled
\* patterns stay dense.
C25_ZeroWidthExcluded ==
  nvPc = "ok" =>
    /\ \A project \in DOMAIN corpus :
         \A i \in 0..(Len(corpus[project].Calls) - 1) :
         LET ref == [Project |-> project, CallIndex |-> i]
         IN ZeroWidth(ref) =>
              /\ ref \notin EnrolledRefs
              /\ \A id \in DOMAIN compiledAllPatternIDToLogCallMap :
                   compiledAllPatternIDToLogCallMap[id] # ref
              /\ ref \in compiledRegex
    /\ \A k \in 1..Len(hsPatterns) : hsPatterns[k].Id = k
    /\ \A key \in DOMAIN hsMatches : ~ZeroWidth(hsMatches[key].LcRef)

\* a corpus with an empty format string, and a line another call site wins
C25_Witness ==
  /\ nvPc = "ok"
  /\ \E ref \in compiledRegex : ZeroWidth(ref)
  /\ vpc = "done"
  /\ isMatch
  /\ hsPatterns # <<>>

\* C27: the engine is stateless across lines: ProcessLine never modifies the
\* Viewer, so after construction its config, corpus, confirm-regex map,
\* id-to-CallRef map and definition map keep their values over any sequence
\* of ProcessLine calls.
C27_ViewerReadOnly ==
  [][nvPc = "ok" => (cfg' = cfg /\ nvVars' = nvVars)]_vars

\* ProcessLine has run twice on the Viewer
C27_Witness ==
  /\ nvPc = "ok"
  /\ vpc = "done"
  /\ prevOutput.valid
  /\ isMatch

(***************************************************************************)
(* The prefix strip on every line.                                         *)
(***************************************************************************)
\* C28: for every ViewConfig accepted by Validate and every line, including
\* the empty line and lines shorter than start_pos - 1, the offset satisfies
\* 0 <= off <= len(line), prefix followed by body is the line, and
\* ProcessLine does not fail with an out-of-range slice.
C28_StripInRange ==
  vpc \in {"stripped", "panic"} =>
    /\ vpc # "panic"
    /\ 0 <= Min(startPos, Len(line))
    /\ Min(startPos, Len(line)) <= Len(line)
    /\ prefix \o lineToMatch = line


(***************************************************************************)
(* OrderPreservingCompletionQueue (internal/queue.go:38-71) under callers  *)
(* that push any index, repeated and late ones included.  A caller is a    *)
(* goroutine between two Push calls ("pop_lock"); the consumer receives    *)
(* from the channel.                                                       *)
(***************************************************************************)
MaxIndex == 2
MaxPushCalls == 4
PushIndices == 0..MaxIndex
PushedItem == <<"a">>

RECURSIVE SumOver(_, _)
SumOver(f, S) ==
  IF S = {} THEN 0
  ELSE LET x == CHOOSE y \in S : TRUE IN f[x] + SumOver(f, S \ {x})

InitQueue ==
  /\ cfg = DefaultConfig
  /\ PipelineStart(<<>>)
  /\ vpc = "idle"
  /\ line = <<>>
  /\ startPos = 0
  /\ prefix = <<>>
  /\ lineToMatch = <<>>
  /\ MatchIdle
  /\ ViewerIdle
  /\ cacheFile = NoFile
  /\ cacheProc = <<>>
  /\ pushCalls = [i \in PushIndices |-> 0]

\* q.Push(idx, item) is called
CallPush(w, idx) ==
  /\ pcW[w] = "pop_lock"
  /\ SumOver(pushCalls, PushIndices) < MaxPushCalls
  /\ pcW' = [pcW EXCEPT ![w] = "cpush_lock"]
  /\ wItem' = [wItem EXCEPT ![w] = [Line |-> idx, Content |-> <<>>]]
  /\ wProcessed' = [wProcessed EXCEPT ![w] = PushedItem]
  /\ pushCalls' = [pushCalls EXCEPT ![idx] = @ + 1]
  /\ UNCHANGED <<cfg, input, currLine, pcP, prodLine, iqQueue, iqMu, iqWaiters, wSend,
                 popCount, cqResults, cqMu, nextID, completionChan, pcC, terminated,
                 outputLine, output, crashed, nvVars, vpc, line, startPos, prefix,
                 lineToMatch, hsMatches, bestMatched, isMatch, processedMatched,
                 refColumn, plOutput, prevOutput, roundTrip, reports, cacheFile,
                 cacheProc>>

NextQueue ==
  \/ \E w \in Workers, idx \in PushIndices : CallPush(w, idx)
  \/ \E w \in Workers : WorkerCPushLock(w)
  \/ \E w \in Workers : WorkerCPushInsert(w)
  \/ \E w \in Workers : WorkerCPushLoop(w)
  \/ \E w \in Workers : WorkerCPushSend(w)
  \/ ConsumerRecvLine
  \/ ConsumerCheck

SpecQueue == InitQueue /\ [][NextQueue]_vars

EachIndexPushedAtMostOnce == \A i \in DOMAIN pushCalls : pushCalls[i] <= 1
NoPushInProgress == cqMu = NoOwner

QueueAtRest ==
  (NoPushInProgress /\ EachIndexPushedAtMostOnce) =>
    /\ nextID \notin DOMAIN cqResults
    /\ \A k \in DOMAIN cqResults : k > nextID
    /\ Len(Forwarded) = nextID

\* the Push of caller w stores its item and returns in this step
ReturnsAtOnce(w) ==
  /\ pcW'[w] = "pop_lock"
  /\ cqMu' = NoOwner
  /\ nextID' = nextID
  /\ completionChan' = completionChan
  /\ wSend' = wSend

PushStep ==
  /\ \A w \in Workers :
       (pcW[w] = "cpush_insert" /\ pcW'[w] # "cpush_insert" /\ wItem[w].Line # nextID)
         => ReturnsAtOnce(w)
  /\ \A k \in DOMAIN cqResults :
       k < nextID => (k \in DOMAIN cqResults' /\ cqResults'[k] = cqResults[k])
  /\ \A w \in Workers :
       (wSend'[w] # wSend[w] /\ wSend'[w] # NoSend) => wSend'[w].seq = nextID

\* C29: when no Push holds the mutex and every index was pushed at most
\* once, the map has no entry for nextID, every buffered key is above nextID
\* and the number of items forwarded is nextID; a Push whose index is not
\* nextID forwards nothing and leaves nextID alone; an entry below nextID is
\* never forwarded and never leaves the map.
C29_CompletionQueueInvariant == []QueueAtRest /\ [][PushStep]_vars

\* a late Push has returned: its entry sits below nextID, and items were
\* forwarded and buffered in a run of unique indices as well
C29_Witness ==
  /\ NoPushInProgress
  /\ \E k \in DOMAIN cqResults : k < nextID
  /\ Len(output) >= 2


(***************************************************************************)
(* SafeQueue (internal/queue.go:5-36) with one producer pushing the lines  *)
(* of the input and NumWorkers consumers that call WaitToPop again as soon *)
(* as it returns.                                                          *)
(***************************************************************************)
InitSafeQueue ==
  /\ cfg = DefaultConfig
  /\ \E in \in PipelineInputs : PipelineStart(in)
  /\ LineIdle
  /\ ViewerIdle

\* line := inputQueue.WaitToPop() has returned; the caller loops
PopReturn(w) ==
  /\ pcW[w] = "process"
  /\ pcW' = [pcW EXCEPT ![w] = "pop_lock"]
  /\ wItem' = [wItem EXCEPT ![w] = NoItem]
  /\ UNCHANGED <<cfg, input, currLine, pcP, prodLine, iqQueue, iqMu, iqWaiters,
                 wProcessed, wSend, popCount, cqResults, cqMu, nextID, completionChan,
                 pcC, terminated, outputLine, output, crashed, lineVars, nvVars>>

PopCaller(w) == WorkerPopLock(w) \/ WorkerWait(w) \/ WorkerPop(w) \/ PopReturn(w)

NextSafeQueue ==
  \/ ProducerScan
  \/ ProducerPushLock
  \/ ProducerPushAppend
  \/ \E w \in Workers : WorkerPopLock(w)
  \/ \E w \in Workers : WorkerWait(w)
  \/ \E w \in Workers : WorkerPop(w)
  \/ \E w \in Workers : PopReturn(w)

SpecSafeQueue == InitSafeQueue /\ [][NextSafeQueue]_vars

\* runnable goroutines run
FairSafeQueue ==
  /\ SpecSafeQueue
  /\ WF_vars(ProducerNext)
  /\ \A w \in Workers : WF_vars(PopCaller(w))

\* Push calls that have returned, WaitToPop calls that have taken an item
PushesDone == IF pcP \in {"push_lock", "push_append"} THEN prodLine ELSE currLine
PopsDone == SumOver(popCount, DOMAIN popCount)

SafeQueueState ==
  /\ \A i \in DOMAIN popCount : popCount[i] = IF i < PopsDone THEN 1 ELSE 0
  /\ iqQueue = [k \in 1..(PushesDone - PopsDone) |->
                  [Line |-> PopsDone + k - 1, Content |-> input[PopsDone + k]]]
  /\ \A w \in Workers : pcW[w] = "process" => wItem[w].Line \in 0..(PopsDone - 1)
  /\ \A v, w \in Workers :
       (v # w /\ pcW[v] = "process" /\ pcW[w] = "process") => wItem[v] # wItem[w]
  /\ (Len(iqQueue) > 0 /\ iqMu = NoOwner) => \E w \in Workers : pcW[w] # "waiting"

PopStep ==
  \A w \in Workers :
    (pcW[w] # "process" /\ pcW'[w] = "process") =>
      /\ Len(iqQueue) > 0
      /\ wItem'[w] = Head(iqQueue)
      /\ wItem'[w].Line = PopsDone

EveryPushDelivered ==
  \A i \in 0..(MaxLines - 1) : (PushesDone > i) ~> (PopsDone > i)

\* C30: every item pushed is handed to exactly one WaitToPop caller, in the
\* order of the Push calls, for every interleaving of the producer with
\* waiting and running consumers; an item pushed while nobody waits is still
\* delivered, and WaitToPop takes an item only from a non-empty queue.
C30_SafeQueueDelivery == []SafeQueueState /\ [][PopStep]_vars /\ EveryPushDelivered

\* MaxLines items went through and every consumer is parked again
C30_Witness ==
  /\ Len(input) = MaxLines
  /\ PopsDone = MaxLines
  /\ iqWaiters = Workers

====
